---- MODULE Spec2Model ----
\* Coalesced cache-aside access layer of src/3rd_lab/app.py:
\* get_key_lock, cache_aside_with_coalescing.wrapper and invalidate_cache,
\* run by concurrent request threads against a Redis cache store and a
\* backing store reached through the wrapped function f.
EXTENDS Integers, Sequences, FiniteSets, TLC

\* ---------------------------------------------------------------- bounds
\* request threads serving a burst of requests
BurstSize == 3
\* request threads issuing requests in the general environment
NumCallers == 2
\* ttl handed to setex, in clock ticks (CACHE_TTL is read from the
\* environment, app.py:19; the model uses a small number of ticks)
CACHE_TTL == 2

\* max_retries of get_kafka_producer / get_kafka_consumer (the code's
\* default is 10, 5th_lab/app.py:84; the model uses a small number)
max_retries == 2
\* messages other producers publish to the topic
MaxMessages == 2
\* consumer errors counted before the brokers stay reachable
MaxErrors == 2
\* how far above 100 a requested replica percentage goes
PercentOver == 1
\* routed requests counted
MaxRequests == 2

Threads == 1..BurstSize
Callers == 1..NumCallers
\* the cache keys the two decorated endpoints use (app.py:315, app.py:354)
Keys == {"products:all:limit100", "users:all:limit50"}

\* ------------------------------------------------------- values and JSON
\* Python payloads a wrapped function can put in result[0]:
\*   "rows"         JSON-native dict/list data,
\*   "tuple_rows"   data holding tuples (json.dumps writes them as arrays),
\*   "decimal_rows" data json.dumps cannot serialise (Decimal, Response).
\* A failed result carries "error_rows" (a JSON-native error dict) or
\* "error" (the Response jsonify(error=...) builds).
Payloads == {"rows", "tuple_rows", "decimal_rows"}

NoText == "nil"
TypeError == "TypeError"

\* json.dumps(result[0]) of app.py:145
json_dumps(p) ==
    CASE p = "rows" -> "{rows}"
      [] p = "tuple_rows" -> "[[rows]]"
      [] p = "error_rows" -> "{error}"
      [] OTHER -> TypeError

\* json.loads(cached_value) of app.py:122 and app.py:169
json_loads(t) ==
    CASE t = "{rows}" -> "rows"
      [] t = "[[rows]]" -> "list_rows"
      [] t = "{error}" -> "error_rows"
      [] t = "{floats}" -> "float_rows"
      [] OTHER -> "JSONDecodeError"

\* Results carry `by`: the thread whose own call of f produced the value
\* (0: nobody's call, the value was decoded from the cache).
None == [kind |-> "none", status |-> 0, body |-> "none", by |-> 0]
Raised == [kind |-> "raise", status |-> 0, body |-> "exception", by |-> 0]
Tuple(b, s) == [kind |-> "tuple", status |-> s, body |-> b, by |-> 0]
\* a Flask Response returned without a status (app.py:340-344)
Bare == [kind |-> "bare", status |-> 200, body |-> "response", by |-> 0]

\* the value f hands back to the thread c that called it
Own(c, o) == [o EXCEPT !.by = c]

\* what one invocation of the wrapped function f can yield
FetchOutcomes ==
    {Tuple(p, 200) : p \in Payloads} \cup {Tuple("error", 500), Bare, Raised}

\* the wrapper's own notion of a successful result (app.py:143)
IsSuccess(r) == r.kind = "tuple" /\ r.status = 200

Absent == [val |-> NoText, left |-> 0]
NoReply == [status |-> 0, invalidated_keys |-> 0]

VARIABLES
    redis_client,       \* TRUE: a client object; FALSE: None (app.py:26-32)
    cache,              \* the store: key -> [val, left] (left = ticks to expiry)
    request_locks,      \* app.py:35, key -> lock id, 0 = no slot
    locks,              \* the threading.Lock objects created so far: holder or 0
    lock_manager_lock,  \* app.py:36, holder or 0
    pc, key, key_lock, result, source,   \* per request thread
    CACHE_HITS, CACHE_MISSES, CACHE_WAITS,
    backing_calls,      \* invocations of f per key
    calls,              \* invocations of f per request thread
    leader_failed,      \* per key: a leader left without populating the entry
    removed,            \* per key: the entry was expired or invalidated
    inv_pc, inv_keys, inv_ret,           \* the /cache/invalidate request
    \* track_metrics (app.py:70-99)
    ACTIVE_REQUESTS,    \* the gauge, per endpoint label
    REQUEST_COUNT,      \* the counter, per <<endpoint, status>> label
    tm,                 \* per request thread: its call of decorated_function
    \* Kafka endpoints and consumer (5th_lab/app.py)
    producer, consumer, \* the module globals: 0 for None, else a client id
    consumer_thread_running,
    clients,            \* the Kafka clients constructed so far: kind, open
    areq,               \* per request thread: its call of async_endpoint
    cons,               \* the background thread running consume_messages
    sd_pc,              \* shutdown_consumer (atexit)
    topic,              \* the topic: end offset, the consumer group's
                        \* position and committed offset, failed offsets
    KAFKA_MESSAGES_PRODUCED, KAFKA_MESSAGES_CONSUMED,
    KAFKA_PRODUCER_ERRORS, KAFKA_CONSUMER_ERRORS,
    ASYNC_REQUESTS_IN_PROGRESS,
    \* read/write routing (4th_lab/app.py)
    REPLICA_READ_PERCENT,
    rt,                 \* the request being routed
    ROUTE_COUNT         \* 4th_lab's REQUEST_COUNT, per <<endpoint, target>>

\* the state of the coalesced cache layer
cache_layer == <<redis_client, cache, request_locks, locks,
                 lock_manager_lock, pc, key, key_lock, result, source,
                 CACHE_HITS, CACHE_MISSES, CACHE_WAITS, backing_calls, calls,
                 leader_failed, removed,
                 inv_pc, inv_keys, inv_ret>>
\* the state of the decorators and services around it
metrics_layer == <<ACTIVE_REQUESTS, REQUEST_COUNT, tm>>
kafka_clients == <<producer, consumer, consumer_thread_running, clients>>
kafka_metrics == <<KAFKA_MESSAGES_PRODUCED, KAFKA_MESSAGES_CONSUMED,
                   KAFKA_PRODUCER_ERRORS, KAFKA_CONSUMER_ERRORS,
                   ASYNC_REQUESTS_IN_PROGRESS>>
kafka_layer == <<kafka_clients, areq, cons, sd_pc, topic, kafka_metrics>>
routing_layer == <<REPLICA_READ_PERCENT, rt, ROUTE_COUNT>>
labs == <<metrics_layer, kafka_layer, routing_layer>>

vars == <<cache_layer, labs>>

store == <<redis_client, cache>>
slots == <<request_locks, locks, lock_manager_lock>>
counters == <<CACHE_HITS, CACHE_MISSES, CACHE_WAITS>>
inval == <<inv_pc, inv_keys, inv_ret>>
fetches == <<backing_calls, calls>>
history == <<leader_failed, removed>>

\* --------------------------------------------------- track_metrics values
\* the endpoint labels of two decorated routes (request.path; the method
\* label is 'GET' for both)
TmEndpoints == {"/api/data", "/api/random_error"}

\* what the decorated f hands back: a tuple of two or more elements whose
\* second one is the status, a 1-tuple, a Response (it has status_code), a
\* plain value (dict, str: no status_code), or an exception
TmTuple(s) == [kind |-> "tuple", len |-> 2, status |-> s]
TmTuple3(s) == [kind |-> "tuple", len |-> 3, status |-> s]
TmTuple1 == [kind |-> "tuple", len |-> 1, status |-> 0]
TmResponse(s) == [kind |-> "response", len |-> 0, status |-> s]
TmPlain == [kind |-> "plain", len |-> 0, status |-> 0]
TmRaise == [kind |-> "raise", len |-> 0, status |-> 0]
TmNothing == [kind |-> "none", len |-> 0, status |-> 0]
HandlerOutcomes ==
    {TmTuple(200), TmTuple(500), TmTuple3(404), TmTuple1, TmResponse(200),
     TmResponse(404), TmPlain, TmRaise}
TmStatuses == {200, 404, 500}
TmLabels == TmEndpoints \X TmStatuses

TmIdle == [pc |-> "idle", endpoint |-> "/api/data", status |-> 0,
           response |-> TmNothing]

\* a request thread outside async_endpoint; `late`: a producer had already
\* been constructed when the thread's call of get_kafka_producer began
AsyncIdle == [pc |-> "idle", retries |-> 0, kafka_producer |-> 0,
              late |-> FALSE, status |-> 0, message |-> "none"]
\* the consumer thread before consume_messages starts
ConsIdle == [pc |-> "start", retries |-> 0, consumer_instance |-> 0,
             message |-> 0 - 1]

\* MASTER_HOST, REPLICA_HOST (4th_lab/app.py:17-18, the defaults)
MASTER_HOST == "pg-master"
REPLICA_HOST == "pg-replica"
\* the routes that open a database connection for a request
RouteEndpoints ==
    {"/write", "/read", "/read/master", "/read/replica", "/bulk-insert"}
RtIdle == [pc |-> "idle", endpoint |-> "/read", target |-> "master",
           host |-> "none", status |-> 0]

\* A labelled prometheus_client metric has a child per label tuple, made by
\* the first .labels(...) on it: before that the label has no sample.
NoSamples == [l \in {} |-> 0]
LabelValue(metric, l) == IF l \in DOMAIN metric THEN metric[l] ELSE 0
\* metric.labels(l).inc() and .dec()
inc(metric, l) ==
    [x \in DOMAIN metric \cup {l} |->
        LabelValue(metric, x) + (IF x = l THEN 1 ELSE 0)]
dec(metric, l) ==
    [x \in DOMAIN metric \cup {l} |->
        LabelValue(metric, x) - (IF x = l THEN 1 ELSE 0)]

\* tm and areq hold the request threads that have reached the function;
\* a thread that has not is idle
NoRequests == [c \in {} |-> TmIdle]
TmOf(c) == IF c \in DOMAIN tm THEN tm[c] ELSE TmIdle
AreqOf(c) == IF c \in DOMAIN areq THEN areq[c] ELSE AsyncIdle
Arrive(requests, c, r) ==
    [x \in DOMAIN requests \cup {c} |-> IF x = c THEN r ELSE requests[x]]

\* the state of the decorators and services before the first request
LabsIdle ==
    /\ ACTIVE_REQUESTS = NoSamples
    /\ REQUEST_COUNT = NoSamples
    /\ tm = NoRequests
    /\ producer = 0
    /\ consumer = 0
    /\ consumer_thread_running = FALSE
    /\ clients = <<>>
    /\ areq = NoRequests
    /\ cons = ConsIdle
    /\ sd_pc = "idle"
    /\ topic = [end |-> 0, position |-> 0, committed |-> 0, failed |-> {}]
    /\ KAFKA_MESSAGES_PRODUCED = 0
    /\ KAFKA_MESSAGES_CONSUMED = 0
    /\ KAFKA_PRODUCER_ERRORS = 0
    /\ KAFKA_CONSUMER_ERRORS = 0
    /\ ASYNC_REQUESTS_IN_PROGRESS = 0
    /\ REPLICA_READ_PERCENT = 50
    /\ rt = RtIdle
    /\ ROUTE_COUNT = NoSamples

Init ==
    /\ redis_client \in BOOLEAN
    /\ cache = [k \in Keys |-> Absent]
    /\ request_locks = [k \in Keys |-> 0]
    /\ locks = <<>>
    /\ lock_manager_lock = 0
    /\ pc = [c \in Threads |-> "idle"]
    /\ key = [c \in Threads |-> "products:all:limit100"]
    /\ key_lock = [c \in Threads |-> 0]
    /\ result = [c \in Threads |-> None]
    /\ source = [c \in Threads |-> "none"]
    /\ CACHE_HITS = [k \in Keys |-> 0]
    /\ CACHE_MISSES = [k \in Keys |-> 0]
    /\ CACHE_WAITS = [k \in Keys |-> 0]
    /\ backing_calls = [k \in Keys |-> 0]
    /\ calls = [c \in Threads |-> 0]
    /\ leader_failed = [k \in Keys |-> FALSE]
    /\ removed = [k \in Keys |-> FALSE]
    /\ inv_pc = "idle"
    /\ inv_keys = {}
    /\ inv_ret = NoReply
    /\ LabsIdle

\* ------------------------------------------------------------ cache store
\* Every call of the cache client either is answered or raises (store
\* unreachable, timeout): the actions take `fault`, whether this call raises.

\* redis_client.get(cache_key): the text, NoText for a missing key
redis_get(k) == cache[k].val

\* the store's own clock: every entry loses one tick, an entry with no tick
\* left is removed by the store
Tick ==
    /\ \E k \in Keys : cache[k] # Absent
    /\ cache' = [k \in Keys |->
                   IF cache[k] = Absent THEN Absent
                   ELSE IF cache[k].left = 1 THEN Absent
                   ELSE [cache[k] EXCEPT !.left = @ - 1]]
    /\ removed' = [k \in Keys |->
                     removed[k] \/ (cache[k] # Absent /\ cache[k].left = 1)]
    /\ UNCHANGED <<redis_client, slots, pc, key, key_lock, result,
                   source, counters, fetches, leader_failed, inval, labs>>

\* another client of the same store leaves a text that is not JSON under k
ForeignWrite(k) ==
    /\ cache[k].val # "garbage"
    /\ cache' = [cache EXCEPT ![k] = [val |-> "garbage", left |-> CACHE_TTL]]
    /\ UNCHANGED <<redis_client, slots, pc, key, key_lock, result, source,
                   counters, fetches, history, inval, labs>>

\* ------------------------------------------------------------ get_key_lock
\* variant: get_key_lock without the `with lock_manager_lock:`
LockManagerUnguarded == TRUE

\* `with lock_manager_lock:` can be entered
LockManagerFree == lock_manager_lock = 0

\* variant: get_key_lock without the `if cache_key not in request_locks`,
\* a new lock on every call
GklEnterAlwaysCreate(c) ==
    /\ pc[c] = "gkl_enter"
    /\ LockManagerFree
    /\ lock_manager_lock' = c
    /\ pc' = [pc EXCEPT ![c] = "gkl_create"]
    /\ UNCHANGED <<store, request_locks, locks, key, key_lock, result, source,
                   counters, fetches, history, inval, labs>>

\* the with is entered and `cache_key not in request_locks` is evaluated
GklEnter(c) ==
    /\ pc[c] = "gkl_enter"
    /\ LockManagerFree
    /\ lock_manager_lock' = c
    /\ pc' = [pc EXCEPT ![c] =
                IF request_locks[key[c]] = 0 THEN "gkl_create" ELSE "gkl_return"]
    /\ UNCHANGED <<store, request_locks, locks, key, key_lock, result, source,
                   counters, fetches, history, inval, labs>>

\* variant: the lock is created and the rest of the wrapper runs without
\* leaving the `with lock_manager_lock:`
GklCreateInsideWith(c) ==
    /\ pc[c] = "gkl_create"
    /\ locks' = Append(locks, 0)
    /\ request_locks' = [request_locks EXCEPT ![key[c]] = Len(locks) + 1]
    /\ key_lock' = [key_lock EXCEPT ![c] = Len(locks) + 1]
    /\ pc' = [pc EXCEPT ![c] = "try_acquire"]
    /\ UNCHANGED <<store, lock_manager_lock, key, result, source, counters,
                   fetches, history, inval, labs>>

\* request_locks[cache_key] = threading.Lock(); return it, leaving the with
GklCreate(c) ==
    /\ pc[c] = "gkl_create"
    /\ locks' = Append(locks, 0)
    /\ request_locks' = [request_locks EXCEPT ![key[c]] = Len(locks) + 1]
    /\ key_lock' = [key_lock EXCEPT ![c] = Len(locks) + 1]
    /\ lock_manager_lock' = 0
    /\ pc' = [pc EXCEPT ![c] = "try_acquire"]
    /\ UNCHANGED <<store, key, result, source, counters, fetches, history,
                   inval, labs>>

\* return request_locks[cache_key], leaving the with
GklReturn(c) ==
    /\ pc[c] = "gkl_return"
    /\ key_lock' = [key_lock EXCEPT ![c] = request_locks[key[c]]]
    /\ lock_manager_lock' = 0
    /\ pc' = [pc EXCEPT ![c] = "try_acquire"]
    /\ UNCHANGED <<store, request_locks, locks, key, result, source, counters,
                   fetches, history, inval, labs>>

\* ------------------------------------------- cache_aside_with_coalescing
\* a request thread enters the wrapper decorated with cache key k
Call(c, k) ==
    /\ pc[c] = "idle"
    /\ pc' = [pc EXCEPT ![c] = "read"]
    /\ key' = [key EXCEPT ![c] = k]
    /\ UNCHANGED <<store, slots, key_lock, result, source, counters, fetches,
                   history, inval, labs>>

\* what `if redis_client: try: cached_value = redis_client.get(cache_key)`
\* leaves in cached_value; NoText when the read is skipped or raises
CachedValue(k, fault) ==
    IF redis_client /\ ~fault THEN redis_get(k) ELSE NoText

\* `if cached_value:`
Truthy(t) == t # NoText /\ t # ""

\* variant: the cached text is returned as it was read, json.loads left out
HitResultRaw(t) == Tuple(t, 200)

\* json.loads(cached_value) returns (it raises on a text that is not JSON,
\* which the except Exception around the read catches)
Decodable(t) == json_loads(t) # "JSONDecodeError"

\* CACHE_HITS.inc() runs as soon as a value was read, before json.loads
HitsAfter(k, v) ==
    IF Truthy(v) THEN [CACHE_HITS EXCEPT ![k] = @ + 1] ELSE CACHE_HITS

\* the tuple the wrapper returns from the cache
HitResult(t) == Tuple(json_loads(t), 200)

\* variant: a hit also calls f to refresh the value it returns
ReadRefresh(c, fault) ==
    LET k == key[c]
        v == CachedValue(k, fault)
    IN
    /\ pc[c] = "read"
    /\ CACHE_HITS' = HitsAfter(k, v)
    /\ IF Truthy(v) /\ Decodable(v)
       THEN /\ result' = [result EXCEPT ![c] = HitResult(v)]
            /\ source' = [source EXCEPT ![c] = "cache"]
            /\ pc' = [pc EXCEPT ![c] = "done"]
            /\ backing_calls' = [backing_calls EXCEPT ![k] = @ + 1]
            /\ calls' = [calls EXCEPT ![c] = @ + 1]
            /\ UNCHANGED CACHE_MISSES
       ELSE /\ CACHE_MISSES' = [CACHE_MISSES EXCEPT ![k] = @ + 1]
            /\ pc' = [pc EXCEPT ![c] = "gkl_enter"]
            /\ UNCHANGED <<result, source, fetches>>
    /\ UNCHANGED <<store, slots, key, key_lock, CACHE_WAITS, history, inval, labs>>

\* variant: CACHE_MISSES.inc() sits in the `try` after the read, so a read
\* that raises counts nothing
ReadSilentOnError(c, fault) ==
    LET k == key[c]
        v == CachedValue(k, fault)
    IN
    /\ pc[c] = "read"
    /\ CACHE_HITS' = HitsAfter(k, v)
    /\ IF Truthy(v) /\ Decodable(v)
       THEN /\ result' = [result EXCEPT ![c] = HitResult(v)]
            /\ source' = [source EXCEPT ![c] = "cache"]
            /\ pc' = [pc EXCEPT ![c] = "done"]
            /\ UNCHANGED CACHE_MISSES
       ELSE /\ CACHE_MISSES' = IF redis_client /\ fault THEN CACHE_MISSES
                               ELSE [CACHE_MISSES EXCEPT ![k] = @ + 1]
            /\ pc' = [pc EXCEPT ![c] = "gkl_enter"]
            /\ UNCHANGED <<result, source>>
    /\ UNCHANGED <<store, slots, key, key_lock, CACHE_WAITS, fetches, history,
                   inval, labs>>

\* STEP 1 (fast path) and, on a miss or when the read or the decode
\* raised, CACHE_MISSES.inc()
Read(c, fault) ==
    LET k == key[c]
        v == CachedValue(k, fault)
    IN
    /\ pc[c] = "read"
    /\ CACHE_HITS' = HitsAfter(k, v)
    /\ IF Truthy(v) /\ Decodable(v)
       THEN /\ result' = [result EXCEPT ![c] = HitResult(v)]
            /\ source' = [source EXCEPT ![c] = "cache"]
            /\ pc' = [pc EXCEPT ![c] = "done"]
            /\ UNCHANGED CACHE_MISSES
       ELSE /\ CACHE_MISSES' = [CACHE_MISSES EXCEPT ![k] = @ + 1]
            /\ pc' = [pc EXCEPT ![c] = "gkl_enter"]
            /\ UNCHANGED <<result, source>>
    /\ UNCHANGED <<store, slots, key, key_lock, CACHE_WAITS, fetches, history,
                   inval, labs>>

\* variant: the acquire is made on a lock of the call's own, not on the
\* lock shared under the key, so it always succeeds
GrantedAlways(l) == TRUE

\* key_lock.acquire(blocking=False)
Granted(l) == locks[l] = 0

\* f(*args, **kwargs) is entered by thread c
InvokeFetch(c) ==
    /\ backing_calls' = [backing_calls EXCEPT ![key[c]] = @ + 1]
    /\ calls' = [calls EXCEPT ![c] = @ + 1]

\* variant: key_lock.acquire() with the default blocking=True
TryAcquireBlocking(c) ==
    /\ pc[c] = "try_acquire"
    /\ Granted(key_lock[c])
    /\ locks' = [locks EXCEPT ![key_lock[c]] = c]
    /\ InvokeFetch(c)
    /\ source' = [source EXCEPT ![c] = "leader"]
    /\ pc' = [pc EXCEPT ![c] = "leader_fetch"]
    /\ UNCHANGED <<store, request_locks, lock_manager_lock, key, key_lock,
                   result, counters, history, inval, labs>>

\* variant: a denied caller goes to wait without CACHE_WAITS.inc()
TryAcquireNoWaitCount(c) ==
    LET l == key_lock[c] IN
    /\ pc[c] = "try_acquire"
    /\ IF Granted(l)
       THEN /\ locks' = [locks EXCEPT ![l] = c]
            /\ InvokeFetch(c)
            /\ source' = [source EXCEPT ![c] = "leader"]
            /\ pc' = [pc EXCEPT ![c] = "leader_fetch"]
       ELSE /\ pc' = [pc EXCEPT ![c] = "wait"]
            /\ UNCHANGED <<locks, fetches, source>>
    /\ UNCHANGED <<store, request_locks, lock_manager_lock, key, key_lock,
                   result, counters, history, inval, labs>>

\* STEP 3: the leader goes on to call f, a denied caller records a wait
TryAcquire(c) ==
    LET k == key[c]
        l == key_lock[c]
    IN
    /\ pc[c] = "try_acquire"
    /\ IF Granted(l)
       THEN /\ locks' = [locks EXCEPT ![l] = c]
            /\ InvokeFetch(c)
            /\ source' = [source EXCEPT ![c] = "leader"]
            /\ pc' = [pc EXCEPT ![c] = "leader_fetch"]
            /\ UNCHANGED CACHE_WAITS
       ELSE /\ CACHE_WAITS' = [CACHE_WAITS EXCEPT ![k] = @ + 1]
            /\ pc' = [pc EXCEPT ![c] = "wait"]
            /\ UNCHANGED <<locks, fetches, source>>
    /\ UNCHANGED <<store, request_locks, lock_manager_lock, key, key_lock,
                   result, CACHE_HITS, CACHE_MISSES, history, inval, labs>>

\* variant: the status of the result is not looked at
ShouldStoreAnyStatus(r) == redis_client /\ r.kind = "tuple"

\* `if redis_client and isinstance(result, tuple) and result[1] == 200`
ShouldStore(r) == redis_client /\ r.kind = "tuple" /\ r.status = 200

\* variant: the leader calls f a second time when the first call failed
LeaderFetchRetry(c, o) ==
    /\ pc[c] = "leader_fetch"
    /\ IF ~IsSuccess(o) /\ o.kind # "bare" /\ calls[c] < 2
       THEN /\ InvokeFetch(c)
            /\ UNCHANGED <<result, pc, leader_failed>>
       ELSE /\ result' = [result EXCEPT ![c] = Own(c, o)]
            /\ UNCHANGED fetches
            /\ IF o.kind # "raise" /\ ShouldStore(o)
               THEN /\ pc' = [pc EXCEPT ![c] = "leader_store"]
                    /\ UNCHANGED leader_failed
               ELSE /\ pc' = [pc EXCEPT ![c] = "leader_release"]
                    /\ leader_failed' = [leader_failed EXCEPT ![key[c]] = TRUE]
    /\ UNCHANGED <<store, slots, key, key_lock, source, counters,
                   removed, inval, labs>>

\* result = f(*args, **kwargs) yields o (or raises) in the leader
LeaderFetch(c, o) ==
    /\ pc[c] = "leader_fetch"
    /\ result' = [result EXCEPT ![c] = Own(c, o)]
    /\ IF o.kind # "raise" /\ ShouldStore(o)
       THEN /\ pc' = [pc EXCEPT ![c] = "leader_store"]
            /\ UNCHANGED leader_failed
       ELSE /\ pc' = [pc EXCEPT ![c] = "leader_release"]
            /\ leader_failed' = [leader_failed EXCEPT ![key[c]] = TRUE]
    /\ UNCHANGED <<store, slots, key, key_lock, source, counters, fetches,
                   removed, inval, labs>>

\* variant: key_lock.release() moved in front of the setex
LeaderStoreUnlocked(c, fault) ==
    LET k == key[c]
        t == json_dumps(result[c].body)
    IN
    /\ pc[c] = "leader_store"
    /\ locks' = [locks EXCEPT ![key_lock[c]] = 0]
    /\ IF t = TypeError \/ fault
       THEN /\ leader_failed' = [leader_failed EXCEPT ![k] = TRUE]
            /\ UNCHANGED cache
       ELSE /\ cache' = [cache EXCEPT ![k] = [val |-> t, left |-> CACHE_TTL]]
            /\ UNCHANGED leader_failed
    /\ pc' = [pc EXCEPT ![c] = "leader_release"]
    /\ UNCHANGED <<redis_client, request_locks, lock_manager_lock, key,
                   key_lock, result, source, counters, fetches, removed, inval, labs>>

\* variant: redis_client.set(cache_key, ...) without a ttl: the entry is
\* stored with no tick count and the store never expires it
LeaderStoreNoTtl(c, fault) ==
    LET k == key[c]
        t == json_dumps(result[c].body)
    IN
    /\ pc[c] = "leader_store"
    /\ IF t = TypeError \/ fault
       THEN /\ leader_failed' = [leader_failed EXCEPT ![k] = TRUE]
            /\ UNCHANGED cache
       ELSE /\ cache' = [cache EXCEPT ![k] = [val |-> t, left |-> 0]]
            /\ UNCHANGED leader_failed
    /\ pc' = [pc EXCEPT ![c] = "leader_release"]
    /\ UNCHANGED <<redis_client, slots, key, key_lock, result,
                   source, counters, fetches, removed, inval, labs>>

\* variant: the setex without the try/except around it, so that an error of
\* the write (or of json.dumps) reaches the caller in place of the result
LeaderStoreRaises(c, fault) ==
    LET k == key[c]
        t == json_dumps(result[c].body)
    IN
    /\ pc[c] = "leader_store"
    /\ IF t = TypeError \/ fault
       THEN /\ leader_failed' = [leader_failed EXCEPT ![k] = TRUE]
            /\ result' = [result EXCEPT ![c] = Own(c, Raised)]
            /\ UNCHANGED cache
       ELSE /\ cache' = [cache EXCEPT ![k] = [val |-> t, left |-> CACHE_TTL]]
            /\ UNCHANGED <<leader_failed, result>>
    /\ pc' = [pc EXCEPT ![c] = "leader_release"]
    /\ UNCHANGED <<redis_client, slots, key, key_lock,
                   source, counters, fetches, removed, inval, labs>>

\* redis_client.setex(cache_key, ttl, json.dumps(result[0])) inside
\* try/except Exception
LeaderStore(c, fault) ==
    LET k == key[c]
        t == json_dumps(result[c].body)
    IN
    /\ pc[c] = "leader_store"
    /\ IF t = TypeError \/ fault
       THEN /\ leader_failed' = [leader_failed EXCEPT ![k] = TRUE]
            /\ UNCHANGED cache
       ELSE /\ cache' = [cache EXCEPT ![k] = [val |-> t, left |-> CACHE_TTL]]
            /\ UNCHANGED leader_failed
    /\ pc' = [pc EXCEPT ![c] = "leader_release"]
    /\ UNCHANGED <<redis_client, slots, key, key_lock, result,
                   source, counters, fetches, removed, inval, labs>>

\* variant: the release written after the try instead of in a finally, so
\* an exception raised by f skips it
LeaderReleaseNoFinally(c) ==
    /\ pc[c] = "leader_release"
    /\ locks' = IF result[c].kind = "raise" THEN locks
                ELSE [locks EXCEPT ![key_lock[c]] = 0]
    /\ pc' = [pc EXCEPT ![c] = "done"]
    /\ UNCHANGED <<store, request_locks, lock_manager_lock, key, key_lock,
                   result, source, counters, fetches, history, inval, labs>>

\* finally: key_lock.release(); then `return result` or the exception
LeaderRelease(c) ==
    /\ pc[c] = "leader_release"
    /\ locks' = [locks EXCEPT ![key_lock[c]] = 0]
    /\ pc' = [pc EXCEPT ![c] = "done"]
    /\ UNCHANGED <<store, request_locks, lock_manager_lock, key, key_lock,
                   result, source, counters, fetches, history, inval, labs>>

\* variant: the follower goes on to the re-read without waiting for the lock
WaitNoBlock(c) ==
    /\ pc[c] = "wait"
    /\ pc' = [pc EXCEPT ![c] = "recheck"]
    /\ UNCHANGED <<store, slots, key, key_lock, result, source, counters,
                   fetches, history, inval, labs>>

\* variant: the follower waits for the lock to be free without taking it
WaitShared(c) ==
    /\ pc[c] = "wait"
    /\ locks[key_lock[c]] = 0
    /\ pc' = [pc EXCEPT ![c] = "recheck"]
    /\ UNCHANGED <<store, slots, key, key_lock, result, source, counters,
                   fetches, history, inval, labs>>

\* variant: key_lock.acquire(timeout=...); when the lock is not free the
\* follower gives up waiting and calls f without the lock
WaitWithTimeout(c) ==
    /\ pc[c] = "wait"
    /\ IF locks[key_lock[c]] = 0
       THEN /\ locks' = [locks EXCEPT ![key_lock[c]] = c]
            /\ pc' = [pc EXCEPT ![c] = "recheck"]
            /\ UNCHANGED <<fetches, source>>
       ELSE /\ InvokeFetch(c)
            /\ source' = [source EXCEPT ![c] = "fallback"]
            /\ pc' = [pc EXCEPT ![c] = "fallback_fetch"]
            /\ UNCHANGED locks
    /\ UNCHANGED <<store, request_locks, lock_manager_lock, key, key_lock,
                   result, counters, history, inval, labs>>

\* `with key_lock:` in the follower blocks until the lock is free, takes it
Wait(c) ==
    /\ pc[c] = "wait"
    /\ locks[key_lock[c]] = 0
    /\ locks' = [locks EXCEPT ![key_lock[c]] = c]
    /\ pc' = [pc EXCEPT ![c] = "recheck"]
    /\ UNCHANGED <<store, request_locks, lock_manager_lock, key, key_lock,
                   result, source, counters, fetches, history, inval, labs>>

\* variant: the follower calls f after waiting without reading the cache again
RecheckBlind(c, fault) ==
    /\ pc[c] = "recheck"
    /\ InvokeFetch(c)
    /\ source' = [source EXCEPT ![c] = "fallback"]
    /\ pc' = [pc EXCEPT ![c] = "fallback_fetch"]
    /\ UNCHANGED <<store, slots, key, key_lock, result, counters, history,
                   inval, labs>>

\* variant: the follower acquires the lock without a with and returns the
\* cached value without releasing it
RecheckNoRelease(c, fault) ==
    LET k == key[c]
        v == CachedValue(k, fault)
    IN
    /\ pc[c] = "recheck"
    /\ CACHE_HITS' = HitsAfter(k, v)
    /\ IF Truthy(v) /\ Decodable(v)
       THEN /\ result' = [result EXCEPT ![c] = HitResult(v)]
            /\ source' = [source EXCEPT ![c] = "follower_cache"]
            /\ pc' = [pc EXCEPT ![c] = "done"]
            /\ UNCHANGED fetches
       ELSE /\ InvokeFetch(c)
            /\ source' = [source EXCEPT ![c] = "fallback"]
            /\ pc' = [pc EXCEPT ![c] = "fallback_fetch"]
            /\ UNCHANGED result
    /\ UNCHANGED <<store, slots, key, key_lock, CACHE_MISSES, CACHE_WAITS,
                   history, inval, labs>>

\* the double check under the lock: a value found is returned, which leaves
\* the with and releases the lock; when nothing is found, or the read or the
\* decode raised, f is called
Recheck(c, fault) ==
    LET k == key[c]
        v == CachedValue(k, fault)
    IN
    /\ pc[c] = "recheck"
    /\ CACHE_HITS' = HitsAfter(k, v)
    /\ IF Truthy(v) /\ Decodable(v)
       THEN /\ result' = [result EXCEPT ![c] = HitResult(v)]
            /\ source' = [source EXCEPT ![c] = "follower_cache"]
            /\ locks' = [locks EXCEPT ![key_lock[c]] = 0]
            /\ pc' = [pc EXCEPT ![c] = "done"]
            /\ UNCHANGED fetches
       ELSE /\ InvokeFetch(c)
            /\ source' = [source EXCEPT ![c] = "fallback"]
            /\ pc' = [pc EXCEPT ![c] = "fallback_fetch"]
            /\ UNCHANGED <<result, locks>>
    /\ UNCHANGED <<store, request_locks, lock_manager_lock, key, key_lock,
                   CACHE_MISSES, CACHE_WAITS, history, inval, labs>>

\* variant: the follower stores a successful result of its own call
FallbackFetchStores(c, o) ==
    /\ pc[c] = "fallback_fetch"
    /\ result' = [result EXCEPT ![c] = Own(c, o)]
    /\ cache' = IF ShouldStore(o) /\ json_dumps(o.body) # TypeError
                THEN [cache EXCEPT ![key[c]] =
                        [val |-> json_dumps(o.body), left |-> CACHE_TTL]]
                ELSE cache
    /\ locks' = [locks EXCEPT ![key_lock[c]] = 0]
    /\ pc' = [pc EXCEPT ![c] = "done"]
    /\ UNCHANGED <<redis_client, request_locks, lock_manager_lock, key,
                   key_lock, source, counters, fetches, history, inval, labs>>

\* variant: the follower takes and releases the lock by hand, with no
\* `with`, so an exception raised by f skips the release
FallbackFetchKeepsLock(c, o) ==
    /\ pc[c] = "fallback_fetch"
    /\ result' = [result EXCEPT ![c] = Own(c, o)]
    /\ locks' = IF o.kind = "raise" THEN locks
                ELSE [locks EXCEPT ![key_lock[c]] = 0]
    /\ pc' = [pc EXCEPT ![c] = "done"]
    /\ UNCHANGED <<store, request_locks, lock_manager_lock, key, key_lock,
                   source, counters, fetches, history, inval, labs>>

\* variant: the follower calls f again when its call did not succeed
FallbackFetchRetry(c, o) ==
    /\ pc[c] = "fallback_fetch"
    /\ IF ~IsSuccess(o) /\ calls[c] < 2
       THEN /\ InvokeFetch(c)
            /\ UNCHANGED <<result, locks, pc>>
       ELSE /\ result' = [result EXCEPT ![c] = Own(c, o)]
            /\ locks' = [locks EXCEPT ![key_lock[c]] = 0]
            /\ pc' = [pc EXCEPT ![c] = "done"]
            /\ UNCHANGED fetches
    /\ UNCHANGED <<store, request_locks, lock_manager_lock, key, key_lock,
                   source, counters, history, inval, labs>>

\* `return f(*args, **kwargs)` yields o (or raises) in the follower, which
\* leaves the with and releases the lock
FallbackFetch(c, o) ==
    /\ pc[c] = "fallback_fetch"
    /\ result' = [result EXCEPT ![c] = Own(c, o)]
    /\ locks' = [locks EXCEPT ![key_lock[c]] = 0]
    /\ pc' = [pc EXCEPT ![c] = "done"]
    /\ UNCHANGED <<store, request_locks, lock_manager_lock, key, key_lock,
                   source, counters, fetches, history, inval, labs>>

\* --------------------------------------------------------- invalidate_cache
\* variant: without a client, or when keys('*') raises, the handler replies
\* success with no keys invalidated
InvalidateKeysSwallow(fault) ==
    /\ inv_pc = "idle"
    /\ IF ~redis_client \/ fault
       THEN /\ inv_ret' = [status |-> 200, invalidated_keys |-> 0]
            /\ inv_pc' = "done"
            /\ UNCHANGED inv_keys
       ELSE LET ks == {k \in Keys : cache[k] # Absent} IN
            IF ks = {}
            THEN /\ inv_ret' = [status |-> 200, invalidated_keys |-> 0]
                 /\ inv_pc' = "done"
                 /\ UNCHANGED inv_keys
            ELSE /\ inv_keys' = ks
                 /\ inv_pc' = "delete"
                 /\ UNCHANGED inv_ret
    /\ UNCHANGED <<store, slots, pc, key, key_lock, result, source, counters,
                   fetches, history, labs>>

\* keys_to_delete = redis_client.keys('*'), with the early returns
InvalidateKeys(fault) ==
    /\ inv_pc = "idle"
    /\ IF ~redis_client \/ fault
       THEN /\ inv_ret' = [status |-> 500, invalidated_keys |-> 0]
            /\ inv_pc' = "done"
            /\ UNCHANGED inv_keys
       ELSE LET ks == {k \in Keys : cache[k] # Absent} IN
            IF ks = {}
            THEN /\ inv_ret' = [status |-> 200, invalidated_keys |-> 0]
                 /\ inv_pc' = "done"
                 /\ UNCHANGED inv_keys
            ELSE /\ inv_keys' = ks
                 /\ inv_pc' = "delete"
                 /\ UNCHANGED inv_ret
    /\ UNCHANGED <<store, slots, pc, key, key_lock, result, source, counters,
                   fetches, history, labs>>

\* variant: the delete waits until no key lock is held
InvalidateDeleteCoordinated(fault) ==
    /\ inv_pc = "delete"
    /\ \A l \in 1..Len(locks) : locks[l] = 0
    /\ IF fault
       THEN /\ inv_ret' = [status |-> 500, invalidated_keys |-> 0]
            /\ UNCHANGED <<cache, removed>>
       ELSE /\ cache' = [k \in Keys |-> IF k \in inv_keys THEN Absent
                                        ELSE cache[k]]
            /\ removed' = [k \in Keys |->
                             removed[k] \/ (k \in inv_keys /\ cache[k] # Absent)]
            /\ inv_ret' = [status |-> 200,
                           invalidated_keys |-> Cardinality(inv_keys)]
    /\ inv_pc' = "done"
    /\ inv_keys' = {}
    /\ UNCHANGED <<redis_client, slots, pc, key, key_lock, result,
                   source, counters, fetches, leader_failed, labs>>

\* redis_client.delete(*keys_to_delete) and the reply
InvalidateDelete(fault) ==
    /\ inv_pc = "delete"
    /\ IF fault
       THEN /\ inv_ret' = [status |-> 500, invalidated_keys |-> 0]
            /\ UNCHANGED <<cache, removed>>
       ELSE /\ cache' = [k \in Keys |-> IF k \in inv_keys THEN Absent
                                        ELSE cache[k]]
            /\ removed' = [k \in Keys |->
                             removed[k] \/ (k \in inv_keys /\ cache[k] # Absent)]
            /\ inv_ret' = [status |-> 200,
                           invalidated_keys |-> Cardinality(inv_keys)]
    /\ inv_pc' = "done"
    /\ inv_keys' = {}
    /\ UNCHANGED <<redis_client, slots, pc, key, key_lock, result,
                   source, counters, fetches, leader_failed, labs>>

\* the reply is sent; the next POST /cache/invalidate can be served
InvalidateDone ==
    /\ inv_pc = "done"
    /\ inv_pc' = "idle"
    /\ inv_ret' = NoReply
    /\ UNCHANGED <<store, slots, pc, key, key_lock, result, source, counters,
                   fetches, history, inv_keys, labs>>

\* ------------------------------------------------------------ specification
Next ==
    \/ \E c \in Callers, k \in Keys : Call(c, k)
    \/ \E c \in Callers, fault \in BOOLEAN : Read(c, fault)
    \/ \E c \in Callers : GklEnter(c)
    \/ \E c \in Callers : GklCreate(c)
    \/ \E c \in Callers : GklReturn(c)
    \/ \E c \in Callers : TryAcquire(c)
    \/ \E c \in Callers, o \in FetchOutcomes : LeaderFetch(c, o)
    \/ \E c \in Callers, fault \in BOOLEAN : LeaderStore(c, fault)
    \/ \E c \in Callers : LeaderRelease(c)
    \/ \E c \in Callers : Wait(c)
    \/ \E c \in Callers, fault \in BOOLEAN : Recheck(c, fault)
    \/ \E c \in Callers, o \in FetchOutcomes : FallbackFetch(c, o)
    \/ \E fault \in BOOLEAN : InvalidateKeys(fault)
    \/ \E fault \in BOOLEAN : InvalidateDelete(fault)
    \/ InvalidateDone
    \/ Tick

Spec == Init /\ [][Next]_vars

\* The healthy environment: the cache store is reachable, f always returns
\* (payload, 200) with the same JSON-native payload, nothing expires and
\* nobody invalidates while a burst of requests runs.
OkOutcomes == {Tuple("rows", 200)}

InitHealthy == Init /\ redis_client

NextHealthy ==
    \/ \E c \in Threads, k \in Keys : Call(c, k)
    \/ \E c \in Threads : Read(c, FALSE)
    \/ \E c \in Threads : GklEnter(c)
    \/ \E c \in Threads : GklCreate(c)
    \/ \E c \in Threads : GklReturn(c)
    \/ \E c \in Threads : TryAcquire(c)
    \/ \E c \in Threads, o \in OkOutcomes : LeaderFetch(c, o)
    \/ \E c \in Threads : LeaderStore(c, FALSE)
    \/ \E c \in Threads : LeaderRelease(c)
    \/ \E c \in Threads : Wait(c)
    \/ \E c \in Threads : Recheck(c, FALSE)

SpecHealthy == InitHealthy /\ [][NextHealthy]_vars

\* The environment without cache faults: the client exists and every cache
\* call is answered; f may fail, entries expire and are invalidated.
NextExpiry ==
    \/ \E c \in Callers, k \in Keys : Call(c, k)
    \/ \E c \in Callers : Read(c, FALSE)
    \/ \E c \in Callers : GklEnter(c)
    \/ \E c \in Callers : GklCreate(c)
    \/ \E c \in Callers : GklReturn(c)
    \/ \E c \in Callers : TryAcquire(c)
    \/ \E c \in Callers, o \in FetchOutcomes : LeaderFetch(c, o)
    \/ \E c \in Callers : LeaderStore(c, FALSE)
    \/ \E c \in Callers : LeaderRelease(c)
    \/ \E c \in Callers : Wait(c)
    \/ \E c \in Callers : Recheck(c, FALSE)
    \/ \E c \in Callers, o \in FetchOutcomes : FallbackFetch(c, o)
    \/ InvalidateKeys(FALSE)
    \/ InvalidateDelete(FALSE)
    \/ InvalidateDone
    \/ Tick

SpecExpiry == InitHealthy /\ [][NextExpiry]_vars

\* The failing herd: f is slow and fails in the leader, so that the leader's
\* call ends only when every other thread of the burst is waiting for the
\* same key; the followers' own calls of f may yield anything.
FailOutcomes == {Tuple("error", 500), Raised}

OthersWaiting(c) ==
    \A d \in Threads \ {c} : pc[d] = "wait" /\ key[d] = key[c]

LeaderFetchHerd(c, o) == OthersWaiting(c) /\ LeaderFetch(c, o)

NextHerd ==
    \/ \E c \in Threads, k \in Keys : Call(c, k)
    \/ \E c \in Threads, fault \in BOOLEAN : Read(c, fault)
    \/ \E c \in Threads : GklEnter(c)
    \/ \E c \in Threads : GklCreate(c)
    \/ \E c \in Threads : GklReturn(c)
    \/ \E c \in Threads : TryAcquire(c)
    \/ \E c \in Threads, o \in FailOutcomes : LeaderFetchHerd(c, o)
    \/ \E c \in Threads : LeaderRelease(c)
    \/ \E c \in Threads : Wait(c)
    \/ \E c \in Threads, fault \in BOOLEAN : Recheck(c, fault)
    \/ \E c \in Threads, o \in FetchOutcomes : FallbackFetch(c, o)

SpecHerd == Init /\ [][NextHerd]_vars

\* The healthy environment with the store's clock running: entries expire,
\* nobody invalidates; f always returns the same payload, one that holds
\* tuples, so that what is read back from the cache is not what was fetched.
TupleOutcomes == {Tuple("tuple_rows", 200)}

NextTtl ==
    \/ \E c \in Threads, k \in Keys : Call(c, k)
    \/ \E c \in Threads : Read(c, FALSE)
    \/ \E c \in Threads : GklEnter(c)
    \/ \E c \in Threads : GklCreate(c)
    \/ \E c \in Threads : GklReturn(c)
    \/ \E c \in Threads : TryAcquire(c)
    \/ \E c \in Threads, o \in TupleOutcomes : LeaderFetch(c, o)
    \/ \E c \in Threads : LeaderStore(c, FALSE)
    \/ \E c \in Threads : LeaderRelease(c)
    \/ \E c \in Threads : Wait(c)
    \/ \E c \in Threads : Recheck(c, FALSE)
    \/ Tick

SpecTtl == InitHealthy /\ [][NextTtl]_vars

\* The outage environment: the client may be missing, any cache call may
\* raise, a stored text may not decode; f may yield anything.
NextOutage ==
    \/ \E c \in Callers, k \in Keys : Call(c, k)
    \/ \E c \in Callers, fault \in BOOLEAN : Read(c, fault)
    \/ \E c \in Callers : GklEnter(c)
    \/ \E c \in Callers : GklCreate(c)
    \/ \E c \in Callers : GklReturn(c)
    \/ \E c \in Callers : TryAcquire(c)
    \/ \E c \in Callers, o \in FetchOutcomes : LeaderFetch(c, o)
    \/ \E c \in Callers, fault \in BOOLEAN : LeaderStore(c, fault)
    \/ \E c \in Callers : LeaderRelease(c)
    \/ \E c \in Callers : Wait(c)
    \/ \E c \in Callers, fault \in BOOLEAN : Recheck(c, fault)
    \/ \E c \in Callers, o \in FetchOutcomes : FallbackFetch(c, o)
    \/ \E k \in Keys : ForeignWrite(k)

SpecOutage == Init /\ [][NextOutage]_vars

\* The healthy environment with invalidation requests arriving while the
\* burst runs.
NextRace ==
    \/ \E c \in Threads, k \in Keys : Call(c, k)
    \/ \E c \in Threads : Read(c, FALSE)
    \/ \E c \in Threads : GklEnter(c)
    \/ \E c \in Threads : GklCreate(c)
    \/ \E c \in Threads : GklReturn(c)
    \/ \E c \in Threads : TryAcquire(c)
    \/ \E c \in Threads, o \in OkOutcomes : LeaderFetch(c, o)
    \/ \E c \in Threads : LeaderStore(c, FALSE)
    \/ \E c \in Threads : LeaderRelease(c)
    \/ \E c \in Threads : Wait(c)
    \/ \E c \in Threads : Recheck(c, FALSE)
    \/ \E c \in Threads, o \in OkOutcomes : FallbackFetch(c, o)
    \/ InvalidateKeys(FALSE)
    \/ InvalidateDelete(FALSE)
    \/ InvalidateDone

SpecRace == InitHealthy /\ [][NextRace]_vars

\* The decorated endpoints as f: get_products_cached and get_users_cached
\* return jsonify(...) with no status when the query succeeds and
\* (jsonify(error), 500) when the connection or the query fails. The store
\* is reachable and nothing expires. The setex step is left out of the
\* steps: LeaderFetch sends every one of these outcomes to the release.
EndpointOutcomes == {Bare, Tuple("error", 500)}

NextEndpoint ==
    \/ \E c \in Threads, k \in Keys : Call(c, k)
    \/ \E c \in Threads : Read(c, FALSE)
    \/ \E c \in Threads : GklEnter(c)
    \/ \E c \in Threads : GklCreate(c)
    \/ \E c \in Threads : GklReturn(c)
    \/ \E c \in Threads : TryAcquire(c)
    \/ \E c \in Threads, o \in EndpointOutcomes : LeaderFetch(c, o)
    \/ \E c \in Threads : LeaderRelease(c)
    \/ \E c \in Threads : Wait(c)
    \/ \E c \in Threads : Recheck(c, FALSE)
    \/ \E c \in Threads, o \in EndpointOutcomes : FallbackFetch(c, o)

SpecEndpoint == InitHealthy /\ [][NextEndpoint]_vars

\* ------------------------------------------- cache_aside ('app copy.py')
\* The decorator the coalescing one replaced: no key lock, every miss calls
\* f. A thread runs it from "ca_idle".

\* json.dumps(convert_decimals(data), cls=DecimalEncoder): Decimals are
\* written as floats, anything else as json.dumps writes it
dumps_with_decimals(p) ==
    IF p = "decimal_rows" THEN "{floats}" ELSE json_dumps(p)

\* `data, status = result` for a 2-tuple, `status = 200` for anything else
StatusOf(r) == IF r.kind = "tuple" THEN r.status ELSE 200

CaCall(c, k) ==
    /\ pc[c] = "ca_idle"
    /\ pc' = [pc EXCEPT ![c] = "ca_read"]
    /\ key' = [key EXCEPT ![c] = k]
    /\ UNCHANGED <<store, slots, key_lock, result, source, counters, fetches,
                   history, inval, labs>>

\* STEP 1 and, on a miss or a failed read, CACHE_MISSES.inc()
CaRead(c, fault) ==
    LET k == key[c]
        v == CachedValue(k, fault)
    IN
    /\ pc[c] = "ca_read"
    /\ CACHE_HITS' = HitsAfter(k, v)
    /\ IF Truthy(v) /\ Decodable(v)
       THEN /\ result' = [result EXCEPT ![c] = HitResult(v)]
            /\ source' = [source EXCEPT ![c] = "cache"]
            /\ pc' = [pc EXCEPT ![c] = "done"]
            /\ UNCHANGED CACHE_MISSES
       ELSE /\ CACHE_MISSES' = [CACHE_MISSES EXCEPT ![k] = @ + 1]
            /\ pc' = [pc EXCEPT ![c] = "ca_fetch"]
            /\ UNCHANGED <<result, source>>
    /\ UNCHANGED <<store, slots, key, key_lock, CACHE_WAITS, fetches, history,
                   inval, labs>>

\* result = f(*args, **kwargs); an exception leaves the wrapper here
CaFetch(c, o) ==
    /\ pc[c] = "ca_fetch"
    /\ InvokeFetch(c)
    /\ result' = [result EXCEPT ![c] = Own(c, o)]
    /\ source' = [source EXCEPT ![c] = "direct"]
    /\ pc' = [pc EXCEPT ![c] =
                IF o.kind # "raise" /\ redis_client /\ StatusOf(o) = 200
                THEN "ca_store" ELSE "done"]
    /\ UNCHANGED <<store, slots, key, key_lock, counters, history, inval, labs>>

\* STEP 3: the setex inside try/except Exception, then `return result`
CaStore(c, fault) ==
    LET k == key[c]
        t == dumps_with_decimals(result[c].body)
    IN
    /\ pc[c] = "ca_store"
    /\ cache' = IF t = TypeError \/ fault THEN cache
                ELSE [cache EXCEPT ![k] = [val |-> t, left |-> CACHE_TTL]]
    /\ pc' = [pc EXCEPT ![c] = "done"]
    /\ UNCHANGED <<redis_client, slots, key, key_lock, result, source,
                   counters, fetches, history, inval, labs>>

\* ------------------------------------------------ both decorators, any f
\* The process runs one of the two versions of the module: every request
\* thread starts in the coalescing wrapper ("idle") or every one in
\* cache_aside ("ca_idle"). f yields successes, JSON-native and not, and
\* failures whose payload json.dumps could write.
StatusOutcomes ==
    {Tuple("rows", 200), Tuple("decimal_rows", 200), Tuple("error_rows", 500),
     Bare, Raised}

InitCacheAside ==
    /\ redis_client \in BOOLEAN
    /\ cache = [k \in Keys |-> Absent]
    /\ request_locks = [k \in Keys |-> 0]
    /\ locks = <<>>
    /\ lock_manager_lock = 0
    /\ pc = [c \in Threads |-> "ca_idle"]
    /\ key = [c \in Threads |-> "products:all:limit100"]
    /\ key_lock = [c \in Threads |-> 0]
    /\ result = [c \in Threads |-> None]
    /\ source = [c \in Threads |-> "none"]
    /\ CACHE_HITS = [k \in Keys |-> 0]
    /\ CACHE_MISSES = [k \in Keys |-> 0]
    /\ CACHE_WAITS = [k \in Keys |-> 0]
    /\ backing_calls = [k \in Keys |-> 0]
    /\ calls = [c \in Threads |-> 0]
    /\ leader_failed = [k \in Keys |-> FALSE]
    /\ removed = [k \in Keys |-> FALSE]
    /\ inv_pc = "idle"
    /\ inv_keys = {}
    /\ inv_ret = NoReply
    /\ LabsIdle

NextCached ==
    \/ \E c \in Callers, k \in Keys : Call(c, k)
    \/ \E c \in Callers, fault \in BOOLEAN : Read(c, fault)
    \/ \E c \in Callers : GklEnter(c)
    \/ \E c \in Callers : GklCreate(c)
    \/ \E c \in Callers : GklReturn(c)
    \/ \E c \in Callers : TryAcquire(c)
    \/ \E c \in Callers, o \in StatusOutcomes : LeaderFetch(c, o)
    \/ \E c \in Callers, fault \in BOOLEAN : LeaderStore(c, fault)
    \/ \E c \in Callers : LeaderRelease(c)
    \/ \E c \in Callers : Wait(c)
    \/ \E c \in Callers, fault \in BOOLEAN : Recheck(c, fault)
    \/ \E c \in Callers, o \in StatusOutcomes : FallbackFetch(c, o)
    \/ \E c \in Callers, k \in Keys : CaCall(c, k)
    \/ \E c \in Callers, fault \in BOOLEAN : CaRead(c, fault)
    \/ \E c \in Callers, o \in StatusOutcomes : CaFetch(c, o)
    \/ \E c \in Callers, fault \in BOOLEAN : CaStore(c, fault)

SpecCached == (Init \/ InitCacheAside) /\ [][NextCached]_vars

\* ------------------------------------------------- requests keep arriving
\* Every call of f and of the store returns or raises; a thread that has
\* returned takes the next request. The tallies, which no step of the
\* wrapper reads, restart with the thread so that the states stay finite.
\* The requests are for one endpoint, the case the key lock is contended in.
LiveOutcomes == {Tuple("rows", 200), Raised}

NextRequest(c) ==
    /\ pc[c] = "done"
    /\ pc' = [pc EXCEPT ![c] = "idle"]
    /\ key_lock' = [key_lock EXCEPT ![c] = 0]
    /\ result' = [result EXCEPT ![c] = None]
    /\ source' = [source EXCEPT ![c] = "none"]
    /\ CACHE_HITS' = [k \in Keys |-> 0]
    /\ CACHE_MISSES' = [k \in Keys |-> 0]
    /\ CACHE_WAITS' = [k \in Keys |-> 0]
    /\ backing_calls' = [k \in Keys |-> 0]
    /\ calls' = [d \in Threads |-> 0]
    /\ UNCHANGED <<store, slots, key, history, inval, labs>>

\* the steps of thread c inside the wrapper
WrapperStep(c) ==
    \/ Read(c, FALSE)
    \/ GklEnter(c)
    \/ GklCreate(c)
    \/ GklReturn(c)
    \/ TryAcquire(c)
    \/ \E o \in LiveOutcomes : LeaderFetch(c, o)
    \/ LeaderStore(c, FALSE)
    \/ LeaderRelease(c)
    \/ Wait(c)
    \/ Recheck(c, FALSE)
    \/ \E o \in LiveOutcomes : FallbackFetch(c, o)

NextArrivals ==
    \/ \E c \in Callers : Call(c, "products:all:limit100")
    \/ \E c \in Callers : WrapperStep(c)
    \/ \E c \in Callers : NextRequest(c)

\* A thread that can take a step takes it: a thread inside the wrapper is
\* scheduled, and f and the store answer. threading.Lock promises nothing
\* about which of the threads asking for a free lock gets it, so the
\* fairness is weak: a thread blocked on a lock is only sure to go on when
\* the lock stays free.
SpecArrivals ==
    /\ Init
    /\ [][NextArrivals]_vars
    /\ \A c \in Callers : WF_vars(WrapperStep(c))

\* ------------------------------------------------------------ track_metrics
\* decorated_function up to `start = time.time(); status = 500`:
\* ACTIVE_REQUESTS.labels(method, endpoint).inc()
TmEnter(c, e) ==
    /\ TmOf(c).pc = "idle"
    /\ ACTIVE_REQUESTS' = inc(ACTIVE_REQUESTS, e)
    /\ tm' = Arrive(tm, c, [pc |-> "handler", endpoint |-> e,
                             status |-> 500, response |-> TmNothing])
    /\ UNCHANGED <<cache_layer, REQUEST_COUNT, kafka_layer, routing_layer>>

\* variant: only a tuple of exactly two elements is read for its status
StatusLabelPairOnly(r) ==
    IF r.kind = "tuple"
    THEN IF r.len = 2 THEN r.status ELSE 200
    ELSE IF r.kind = "response" THEN r.status ELSE 200

\* the status computed from what f returned (app.py:81-87)
StatusLabel(r) ==
    IF r.kind = "tuple"
    THEN IF r.len >= 2 THEN r.status ELSE 200
    ELSE IF r.kind = "response" THEN r.status ELSE 200

\* response = f(*args, **kwargs) returns r or raises; `except Exception`
\* sets status = 500 and re-raises
TmHandler(c, r) ==
    /\ TmOf(c).pc = "handler"
    /\ tm' = [tm EXCEPT ![c].pc = "count",
                        ![c].response = r,
                        ![c].status = IF r.kind = "raise" THEN 500
                                      ELSE StatusLabel(r)]
    /\ UNCHANGED <<cache_layer, ACTIVE_REQUESTS, REQUEST_COUNT, kafka_layer,
                   routing_layer>>

\* finally: REQUEST_COUNT.labels(method, endpoint, str(status)).inc()
TmCount(c) ==
    /\ TmOf(c).pc = "count"
    /\ REQUEST_COUNT' =
          inc(REQUEST_COUNT, <<TmOf(c).endpoint, TmOf(c).status>>)
    /\ tm' = [tm EXCEPT ![c].pc = "dec"]
    /\ UNCHANGED <<cache_layer, ACTIVE_REQUESTS, kafka_layer, routing_layer>>

\* variant: the gauge is decremented after the try statement, not in its
\* finally, so a handler that raises skips it
TmDecAfterTry(c) ==
    /\ TmOf(c).pc = "dec"
    /\ ACTIVE_REQUESTS' =
          IF TmOf(c).response.kind = "raise" THEN ACTIVE_REQUESTS
          ELSE dec(ACTIVE_REQUESTS, TmOf(c).endpoint)
    /\ tm' = [tm EXCEPT ![c].pc =
                 IF TmOf(c).response.kind = "raise" THEN "raised" ELSE "returned"]
    /\ UNCHANGED <<cache_layer, REQUEST_COUNT, kafka_layer, routing_layer>>

\* finally: ACTIVE_REQUESTS.labels(method, endpoint).dec(); the response is
\* returned or the exception goes on to the caller
TmDec(c) ==
    /\ TmOf(c).pc = "dec"
    /\ ACTIVE_REQUESTS' = dec(ACTIVE_REQUESTS, TmOf(c).endpoint)
    /\ tm' = [tm EXCEPT ![c].pc =
                 IF TmOf(c).response.kind = "raise" THEN "raised" ELSE "returned"]
    /\ UNCHANGED <<cache_layer, REQUEST_COUNT, kafka_layer, routing_layer>>

\* concurrent requests to the decorated routes, each handler free to
\* return anything or to raise
NextMetrics ==
    \/ \E c \in Callers, e \in TmEndpoints : TmEnter(c, e)
    \/ \E c \in Callers, r \in HandlerOutcomes : TmHandler(c, r)
    \/ \E c \in Callers : TmCount(c)
    \/ \E c \in Callers : TmDec(c)

SpecMetrics == InitHealthy /\ [][NextMetrics]_vars

\* ------------------------------------- get_kafka_producer, async_endpoint
\* Every construction of a Kafka client and every send either succeeds or
\* raises (no broker, timeout): the actions take `ok`.
others_async == <<cache_layer, ACTIVE_REQUESTS, tm, cons, sd_pc, routing_layer>>

\* start_time = time.time(); ASYNC_REQUESTS_IN_PROGRESS.inc()
AsyncEnter(c) ==
    /\ AreqOf(c).pc = "idle"
    /\ ASYNC_REQUESTS_IN_PROGRESS' = ASYNC_REQUESTS_IN_PROGRESS + 1
    /\ areq' = Arrive(areq, c, [AsyncIdle EXCEPT !.pc = "gkp"])
    /\ UNCHANGED <<others_async, kafka_clients, topic, REQUEST_COUNT,
                   KAFKA_MESSAGES_PRODUCED, KAFKA_MESSAGES_CONSUMED,
                   KAFKA_PRODUCER_ERRORS, KAFKA_CONSUMER_ERRORS>>

Constructed(kind) == {i \in DOMAIN clients : clients[i].kind = kind}

\* get_kafka_producer: `if producer is not None: return producer`, else
\* retries = 0
GkpCheck(c) ==
    /\ AreqOf(c).pc = "gkp"
    /\ areq' = [areq EXCEPT
                  ![c].late = Constructed("producer") # {},
                  ![c].retries = 0,
                  ![c].kafka_producer = producer,
                  ![c].pc = IF producer # 0 THEN "produce" ELSE "connect"]
    /\ UNCHANGED <<others_async, kafka_clients, topic, REQUEST_COUNT,
                   kafka_metrics>>

\* one turn of `while retries < max_retries`: producer = KafkaProducer(...)
\* succeeds and is returned, or raises: retries += 1, and `raise` once
\* retries >= max_retries, else time.sleep(retry_delay). When the loop
\* condition fails the function returns None.
GkpAttempt(c, ok) ==
    /\ AreqOf(c).pc = "connect"
    /\ IF AreqOf(c).retries >= max_retries
       THEN /\ areq' = [areq EXCEPT ![c].kafka_producer = 0,
                                    ![c].pc = "produce"]
            /\ UNCHANGED <<producer, clients>>
       ELSE IF ok
       THEN /\ clients' = Append(clients, [kind |-> "producer", open |-> TRUE])
            /\ producer' = Len(clients) + 1
            /\ areq' = [areq EXCEPT ![c].kafka_producer = Len(clients) + 1,
                                    ![c].pc = "produce"]
       ELSE /\ areq' = [areq EXCEPT
                          ![c].retries = @ + 1,
                          ![c].pc = IF AreqOf(c).retries + 1 >= max_retries
                                    THEN "except" ELSE "connect"]
            /\ UNCHANGED <<producer, clients>>
    /\ UNCHANGED <<others_async, consumer, consumer_thread_running, topic,
                   REQUEST_COUNT, kafka_metrics>>

\* `if kafka_producer is None:` the 503 reply; else send and flush, then
\* the counters and the 200 reply; a send that raises goes to the except
AsyncProduce(c, ok) ==
    /\ AreqOf(c).pc = "produce"
    /\ IF AreqOf(c).kafka_producer = 0
       THEN /\ REQUEST_COUNT' = inc(REQUEST_COUNT, <<"/async", 503>>)
            /\ KAFKA_PRODUCER_ERRORS' = KAFKA_PRODUCER_ERRORS + 1
            /\ areq' = [areq EXCEPT
                          ![c].status = 503,
                          ![c].message = "Kafka producer unavailable",
                          ![c].pc = "finally"]
            /\ UNCHANGED <<topic, KAFKA_MESSAGES_PRODUCED>>
       ELSE IF ok
       THEN /\ topic' = [topic EXCEPT !.end = @ + 1]
            /\ REQUEST_COUNT' = inc(REQUEST_COUNT, <<"/async", 200>>)
            /\ KAFKA_MESSAGES_PRODUCED' = KAFKA_MESSAGES_PRODUCED + 1
            /\ areq' = [areq EXCEPT
                          ![c].status = 200,
                          ![c].message = "Message sent to Kafka",
                          ![c].pc = "finally"]
            /\ UNCHANGED KAFKA_PRODUCER_ERRORS
       ELSE /\ areq' = [areq EXCEPT ![c].pc = "except"]
            /\ UNCHANGED <<topic, REQUEST_COUNT, KAFKA_MESSAGES_PRODUCED,
                           KAFKA_PRODUCER_ERRORS>>
    /\ UNCHANGED <<others_async, kafka_clients,
                   KAFKA_MESSAGES_CONSUMED, KAFKA_CONSUMER_ERRORS,
                   ASYNC_REQUESTS_IN_PROGRESS>>

\* except Exception as e: the 500 reply with str(e)
AsyncExcept(c) ==
    /\ AreqOf(c).pc = "except"
    /\ REQUEST_COUNT' = inc(REQUEST_COUNT, <<"/async", 500>>)
    /\ KAFKA_PRODUCER_ERRORS' = KAFKA_PRODUCER_ERRORS + 1
    /\ areq' = [areq EXCEPT ![c].status = 500, ![c].message = "str(e)",
                            ![c].pc = "finally"]
    /\ UNCHANGED <<others_async, kafka_clients, topic,
                   KAFKA_MESSAGES_PRODUCED, KAFKA_MESSAGES_CONSUMED,
                   KAFKA_CONSUMER_ERRORS, ASYNC_REQUESTS_IN_PROGRESS>>

\* finally: ASYNC_REQUESTS_IN_PROGRESS.dec(); the reply is sent
AsyncFinally(c) ==
    /\ AreqOf(c).pc = "finally"
    /\ ASYNC_REQUESTS_IN_PROGRESS' = ASYNC_REQUESTS_IN_PROGRESS - 1
    /\ areq' = [areq EXCEPT ![c].pc = "done"]
    /\ UNCHANGED <<others_async, kafka_clients, topic, REQUEST_COUNT,
                   KAFKA_MESSAGES_PRODUCED, KAFKA_MESSAGES_CONSUMED,
                   KAFKA_PRODUCER_ERRORS, KAFKA_CONSUMER_ERRORS>>

\* concurrent GET /async requests (the server runs threaded=True), the
\* brokers reachable or not at every attempt
NextAsync ==
    \/ \E c \in Threads : AsyncEnter(c)
    \/ \E c \in Threads : GkpCheck(c)
    \/ \E c \in Threads, ok \in BOOLEAN : GkpAttempt(c, ok)
    \/ \E c \in Threads, ok \in BOOLEAN : AsyncProduce(c, ok)
    \/ \E c \in Threads : AsyncExcept(c)
    \/ \E c \in Threads : AsyncFinally(c)

SpecAsync == InitHealthy /\ [][NextAsync]_vars

\* ------------------- get_kafka_consumer, consume_messages, shutdown_consumer
others_consumer == <<cache_layer, metrics_layer, areq,
                     KAFKA_MESSAGES_PRODUCED, KAFKA_PRODUCER_ERRORS,
                     ASYNC_REQUESTS_IN_PROGRESS, routing_layer>>

\* another producer of the topic appends a message
Publish ==
    /\ topic.end < MaxMessages
    /\ topic' = [topic EXCEPT !.end = @ + 1]
    /\ UNCHANGED <<others_consumer, kafka_clients, cons, sd_pc,
                   KAFKA_MESSAGES_CONSUMED, KAFKA_CONSUMER_ERRORS>>

\* consumer_thread_running = True
ConsStart ==
    /\ cons.pc = "start"
    /\ consumer_thread_running' = TRUE
    /\ cons' = [cons EXCEPT !.pc = "loop"]
    /\ UNCHANGED <<others_consumer, producer, consumer, clients, sd_pc, topic,
                   KAFKA_MESSAGES_CONSUMED, KAFKA_CONSUMER_ERRORS>>

\* `while consumer_thread_running:`
ConsLoop ==
    /\ cons.pc = "loop"
    /\ cons' = [cons EXCEPT !.pc = IF consumer_thread_running THEN "gkc"
                                   ELSE "stopped"]
    /\ UNCHANGED <<others_consumer, kafka_clients, sd_pc, topic,
                   KAFKA_MESSAGES_CONSUMED, KAFKA_CONSUMER_ERRORS>>

\* get_kafka_consumer: `if consumer is not None: return consumer`, else
\* retries = 0
GkcCheck ==
    /\ cons.pc = "gkc"
    /\ cons' = [cons EXCEPT !.retries = 0,
                            !.consumer_instance = consumer,
                            !.pc = IF consumer # 0 THEN "iterate"
                                   ELSE "connect"]
    /\ UNCHANGED <<others_consumer, kafka_clients, sd_pc, topic,
                   KAFKA_MESSAGES_CONSUMED, KAFKA_CONSUMER_ERRORS>>

\* one turn of the retry loop: consumer = KafkaConsumer(...) succeeds (the
\* new member of the group starts at the committed offset), or raises;
\* the error re-raised after the last attempt is caught by the `except` of
\* consume_messages, which counts it; a None return goes back to the while
GkcAttempt(ok) ==
    /\ cons.pc = "connect"
    /\ IF cons.retries >= max_retries
       THEN /\ cons' = [cons EXCEPT !.consumer_instance = 0, !.pc = "loop"]
            /\ UNCHANGED <<consumer, clients, topic, KAFKA_CONSUMER_ERRORS>>
       ELSE IF ok
       THEN /\ clients' = Append(clients, [kind |-> "consumer", open |-> TRUE])
            /\ consumer' = Len(clients) + 1
            /\ topic' = [topic EXCEPT !.position = topic.committed]
            /\ cons' = [cons EXCEPT !.consumer_instance = Len(clients) + 1,
                                    !.pc = "iterate"]
            /\ UNCHANGED KAFKA_CONSUMER_ERRORS
       ELSE /\ cons' = [cons EXCEPT
                          !.retries = @ + 1,
                          !.pc = IF cons.retries + 1 >= max_retries
                                 THEN "loop" ELSE "connect"]
            /\ KAFKA_CONSUMER_ERRORS' =
                  IF cons.retries + 1 >= max_retries
                  THEN KAFKA_CONSUMER_ERRORS + 1 ELSE KAFKA_CONSUMER_ERRORS
            /\ UNCHANGED <<consumer, clients, topic>>
    /\ UNCHANGED <<others_consumer, producer, consumer_thread_running, sd_pc,
                   KAFKA_MESSAGES_CONSUMED>>

\* `for message in consumer_instance:` hands over the message at the
\* position and advances the position; it blocks while there is none. On
\* a consumer closed by another thread the iteration ends or raises
\* (raises: the outer except counts a consumer error); both lead back to
\* the while.
ConsPoll(raises) ==
    /\ cons.pc = "iterate"
    /\ IF ~clients[cons.consumer_instance].open
       THEN /\ cons' = [cons EXCEPT !.pc = "loop"]
            /\ KAFKA_CONSUMER_ERRORS' =
                  IF raises THEN KAFKA_CONSUMER_ERRORS + 1
                  ELSE KAFKA_CONSUMER_ERRORS
            /\ UNCHANGED topic
       ELSE /\ ~raises
            /\ topic.position < topic.end
            /\ cons' = [cons EXCEPT !.message = topic.position, !.pc = "got"]
            /\ topic' = [topic EXCEPT !.position = @ + 1]
            /\ UNCHANGED KAFKA_CONSUMER_ERRORS
    /\ UNCHANGED <<others_consumer, kafka_clients, sd_pc,
                   KAFKA_MESSAGES_CONSUMED>>

\* `if not consumer_thread_running: break`
ConsGot ==
    /\ cons.pc = "got"
    /\ cons' = [cons EXCEPT !.pc = IF consumer_thread_running THEN "process"
                                   ELSE "loop"]
    /\ UNCHANGED <<others_consumer, kafka_clients, sd_pc, topic,
                   KAFKA_MESSAGES_CONSUMED, KAFKA_CONSUMER_ERRORS>>

\* the processing of the message up to KAFKA_MESSAGES_CONSUMED.inc(), or
\* an exception on the way, which the inner except counts
ConsProcess(ok) ==
    /\ cons.pc = "process"
    /\ IF ok
       THEN /\ KAFKA_MESSAGES_CONSUMED' = KAFKA_MESSAGES_CONSUMED + 1
            /\ topic' = [topic EXCEPT !.failed = @ \ {cons.message}]
            /\ cons' = [cons EXCEPT !.pc = "commit"]
            /\ UNCHANGED KAFKA_CONSUMER_ERRORS
       ELSE /\ KAFKA_CONSUMER_ERRORS' = KAFKA_CONSUMER_ERRORS + 1
            /\ topic' = [topic EXCEPT !.failed = @ \cup {cons.message}]
            /\ cons' = [cons EXCEPT !.pc = "iterate"]
            /\ UNCHANGED KAFKA_MESSAGES_CONSUMED
    /\ UNCHANGED <<others_consumer, kafka_clients, sd_pc>>

\* consumer_instance.commit(): with no argument it commits the consumer's
\* position, the offset after the last message handed over; it raises on
\* a closed consumer or when the group refuses it (the inner except
\* counts that)
ConsCommit(ok) ==
    /\ cons.pc = "commit"
    /\ IF ok /\ clients[cons.consumer_instance].open
       THEN /\ topic' = [topic EXCEPT !.committed = topic.position]
            /\ UNCHANGED KAFKA_CONSUMER_ERRORS
       ELSE /\ KAFKA_CONSUMER_ERRORS' = KAFKA_CONSUMER_ERRORS + 1
            /\ UNCHANGED topic
    /\ cons' = [cons EXCEPT !.pc = "iterate"]
    /\ UNCHANGED <<others_consumer, kafka_clients, sd_pc,
                   KAFKA_MESSAGES_CONSUMED>>

\* shutdown_consumer: consumer_thread_running = False
SdStop ==
    /\ sd_pc = "idle"
    /\ consumer_thread_running' = FALSE
    /\ sd_pc' = "consumer"
    /\ UNCHANGED <<others_consumer, producer, consumer, clients, cons, topic,
                   KAFKA_MESSAGES_CONSUMED, KAFKA_CONSUMER_ERRORS>>

Close(id, ok) ==
    IF id # 0 /\ ok THEN [clients EXCEPT ![id].open = FALSE] ELSE clients

\* `if consumer:` consumer.close() (it may raise), finally consumer = None
SdCloseConsumer(ok) ==
    /\ sd_pc = "consumer"
    /\ clients' = Close(consumer, ok)
    /\ consumer' = 0
    /\ sd_pc' = "producer"
    /\ UNCHANGED <<others_consumer, producer, consumer_thread_running, cons,
                   topic, KAFKA_MESSAGES_CONSUMED, KAFKA_CONSUMER_ERRORS>>

\* `if producer:` producer.close() (it may raise), finally producer = None
SdCloseProducer(ok) ==
    /\ sd_pc = "producer"
    /\ clients' = Close(producer, ok)
    /\ producer' = 0
    /\ sd_pc' = "done"
    /\ UNCHANGED <<others_consumer, consumer, consumer_thread_running, cons,
                   topic, KAFKA_MESSAGES_CONSUMED, KAFKA_CONSUMER_ERRORS>>

GkcAttemptBounded(ok) ==
    (ok \/ KAFKA_CONSUMER_ERRORS < MaxErrors) /\ GkcAttempt(ok)

\* the consumer thread at work on a topic other instances publish to,
\* processing and commits free to fail, the brokers unreachable for a
\* bounded number of counted errors
NextConsumer ==
    \/ Publish
    \/ ConsStart
    \/ ConsLoop
    \/ GkcCheck
    \/ \E ok \in BOOLEAN : GkcAttemptBounded(ok)
    \/ \E raises \in BOOLEAN : ConsPoll(raises)
    \/ ConsGot
    \/ \E ok \in BOOLEAN : ConsProcess(ok)
    \/ \E ok \in BOOLEAN : ConsCommit(ok)

SpecConsumer == InitHealthy /\ [][NextConsumer]_vars

\* the same with the process exiting at any moment (atexit runs
\* shutdown_consumer while the daemon thread is still scheduled)
NextShutdown ==
    \/ NextConsumer
    \/ SdStop
    \/ \E ok \in BOOLEAN : SdCloseConsumer(ok)
    \/ \E ok \in BOOLEAN : SdCloseProducer(ok)

SpecShutdown == InitHealthy /\ [][NextShutdown]_vars

\* ------------------------------------------------------ read/write routing
others_routing == <<cache_layer, metrics_layer, kafka_layer>>

\* variant: the draw is compared with `<`
ReadTargetStrict(draw) ==
    IF draw < REPLICA_READ_PERCENT THEN "replica" ELSE "master"

\* 'replica' if random.randint(1, 100) <= REPLICA_READ_PERCENT else 'master'
ReadTarget(draw) ==
    IF draw <= REPLICA_READ_PERCENT THEN "replica" ELSE "master"

\* the target a handler passes to get_connection
TargetOf(e, draw) ==
    CASE e = "/read" -> ReadTarget(draw)
      [] e = "/read/replica" -> "replica"
      [] OTHER -> "master"

\* host = MASTER_HOST if target == 'master' else REPLICA_HOST
get_connection(target) ==
    IF target = "master" THEN MASTER_HOST ELSE REPLICA_HOST

RECURSIVE SumCounts(_, _)
SumCounts(f, S) ==
    IF S = {} THEN 0
    ELSE LET l == CHOOSE x \in S : TRUE IN f[l] + SumCounts(f, S \ {l})

\* a request reaches its handler; /read draws its target (the other
\* handlers draw nothing)
RouteEnter(e, draw) ==
    /\ rt.pc = "idle"
    /\ SumCounts(ROUTE_COUNT, DOMAIN ROUTE_COUNT) < MaxRequests
    /\ rt' = [pc |-> "connect", endpoint |-> e, target |-> TargetOf(e, draw),
              host |-> "none", status |-> 0]
    /\ UNCHANGED <<others_routing, REPLICA_READ_PERCENT, ROUTE_COUNT>>

\* conn = get_connection(target) and the statement: on success the request
\* is counted under its target and answered 200, on an exception 500
RouteQuery(ok) ==
    /\ rt.pc = "connect"
    /\ rt' = [rt EXCEPT !.pc = "done",
                        !.host = get_connection(rt.target),
                        !.status = IF ok THEN 200 ELSE 500]
    /\ ROUTE_COUNT' =
          IF ok THEN inc(ROUTE_COUNT, <<rt.endpoint, rt.target>>)
          ELSE ROUTE_COUNT
    /\ UNCHANGED <<others_routing, REPLICA_READ_PERCENT>>

\* the reply is sent
RouteDone ==
    /\ rt.pc = "done"
    /\ rt' = RtIdle
    /\ UNCHANGED <<others_routing, REPLICA_READ_PERCENT, ROUTE_COUNT>>

Max(a, b) == IF a >= b THEN a ELSE b
Min(a, b) == IF a <= b THEN a ELSE b

\* GET /set-replica-percent/<int:percent>
set_replica_percent(percent) ==
    /\ REPLICA_READ_PERCENT' = Max(0, Min(100, percent))
    /\ REPLICA_READ_PERCENT' # REPLICA_READ_PERCENT
    /\ UNCHANGED <<others_routing, rt, ROUTE_COUNT>>

NextRouting ==
    \/ \E draw \in 1..100 : RouteEnter("/read", draw)
    \/ \E e \in RouteEndpoints \ {"/read"} : RouteEnter(e, 1)
    \/ \E ok \in BOOLEAN : RouteQuery(ok)
    \/ RouteDone
    \/ \E percent \in 0..(100 + PercentOver) : set_replica_percent(percent)

\* REPLICA_READ_PERCENT starts at its default and is set to any value
\* the route accepts
SpecRouting == InitHealthy /\ [][NextRouting]_vars

\* ------------------------------------------------------------------ claims
Fetching(c) == pc[c] \in {"leader_fetch", "fallback_fetch"}
Failed(r) == r.kind = "raise" \/ (r.kind = "tuple" /\ r.status # 200)
Requested(k) == {c \in Threads : pc[c] # "idle" /\ key[c] = k}
Holds(c) == \E l \in 1..Len(locks) : locks[l] = c

\* C1: in the healthy environment, once every thread that requested a cold
\* key has returned, f was invoked exactly once for the key and all of them
\* returned the same payload.
C1_SingleFetch ==
    \A k \in Keys :
        (Requested(k) # {} /\ \A c \in Requested(k) : pc[c] = "done")
        => /\ backing_calls[k] = 1
           /\ \A c, d \in Requested(k) :
                  result[c].body = result[d].body
                  /\ result[c].status = result[d].status

\* C2: at any moment at most one thread is inside f for a given key, the
\* leader's call and the followers' fallback calls counted together.
C2_OneFetchInFlight ==
    \A k \in Keys :
        Cardinality({c \in Threads : key[c] = k /\ Fetching(c)}) <= 1

C2_Witness ==
    \E c, d \in Threads :
        c # d /\ key[c] = key[d] /\ Fetching(c) /\ pc[d] = "wait"

\* C3: f is never entered for a key while the cache holds an entry for it.
C3_NoFetchWhileWarm ==
    [][\A k \in Keys :
          backing_calls'[k] # backing_calls[k] => cache[k] = Absent]_vars

\* the tuple a caller gets for the cache text t
Decoded(t) == [kind |-> "tuple", status |-> 200, body |-> json_loads(t), by |-> 0]

\* C4: with every cache call answered, a call whose first read finds the
\* entry returns the decoded entry with status 200 and adds one hit; it
\* records no miss and no wait, touches no slot and no lock, writes nothing
\* to the cache and never enters f; a read that finds nothing is not a hit.
C4_Step(c) ==
    LET k == key[c] IN
    (pc[c] = "read" /\ pc'[c] # "read") =>
        /\ (cache[k] # Absent) <=> (pc'[c] = "done")
        /\ pc'[c] = "done" =>
             /\ result'[c] = Decoded(cache[k].val)
             /\ CACHE_HITS' = [CACHE_HITS EXCEPT ![k] = @ + 1]
             /\ UNCHANGED <<CACHE_MISSES, CACHE_WAITS, cache, request_locks,
                            locks, lock_manager_lock, key_lock, backing_calls,
                            calls>>

C4_FastPath ==
    /\ [][\A c \in Threads : C4_Step(c)]_vars
    /\ [](\A c \in Threads :
            (pc[c] = "done" /\ source[c] = "cache")
            => calls[c] = 0 /\ key_lock[c] = 0 /\ ~Holds(c))

C4_Witness ==
    \E c, d \in Threads :
        /\ c # d /\ key[c] = key[d]
        /\ pc[c] = "done" /\ source[c] = "cache"
        /\ pc[d] = "done" /\ source[d] = "leader"

\* C5: in the healthy environment a leader about to release the key lock
\* still holds it and the cache already holds its own result under the key
\* with the configured ttl; the leader returns the result of its own call;
\* and no follower finds the entry missing after waiting.
C5_WriteBeforeRelease ==
    \A c \in Threads :
        /\ pc[c] = "leader_release" =>
             /\ locks[key_lock[c]] = c
             /\ cache[key[c]] = [val |-> json_dumps(result[c].body),
                                 left |-> CACHE_TTL]
        /\ (pc[c] = "done" /\ source[c] = "leader") =>
             /\ result[c].by = c
             /\ result[c] \in {Own(c, o) : o \in OkOutcomes}
        /\ pc[c] # "fallback_fetch"

C5_Witness ==
    \E c, d \in Threads :
        /\ c # d /\ key[c] = key[d]
        /\ pc[c] = "leader_release" /\ pc[d] = "wait"

\* C6: a leader whose call of f raised or returned a status other than 200
\* goes straight to the release without touching the cache, releases the
\* key lock, hands the failure of its own single call to its own caller and
\* changes nobody else's result; a follower returns either a decoded cache
\* entry or the outcome of its own call.
C6_Step(c) ==
    /\ (pc[c] = "leader_fetch" /\ pc'[c] # "leader_fetch"
        /\ Failed(result'[c])) =>
           /\ pc'[c] = "leader_release"
           /\ result'[c].by = c
           /\ cache' = cache
    /\ (pc[c] = "leader_release" /\ pc'[c] # "leader_release") =>
           /\ pc'[c] = "done"
           /\ locks'[key_lock[c]] = 0
           /\ calls'[c] = 1
           /\ result' = result
           /\ cache' = cache

C6_LeaderFailure ==
    /\ [][\A c \in Threads : C6_Step(c)]_vars
    /\ [](\A c \in Threads :
            pc[c] = "done" =>
               /\ ~Holds(c)
               /\ source[c] = "fallback" => result[c].by = c
               /\ source[c] \in {"cache", "follower_cache"} =>
                      result[c].by = 0 /\ IsSuccess(result[c]))

C6_Witness ==
    \E c, d \in Threads :
        /\ c # d /\ key[c] = key[d]
        /\ pc[c] = "done" /\ source[c] = "leader" /\ Failed(result[c])
        /\ pc[d] = "done" /\ source[d] = "fallback" /\ IsSuccess(result[d])

\* C7: a caller denied the lock adds one wait, proceeds only when the key
\* lock is free, and when its re-read finds the entry it returns the
\* decoded entry with status 200 without entering f.
C7_Step(c) ==
    LET k == key[c] IN
    /\ (pc[c] = "try_acquire" /\ pc'[c] = "wait") =>
           /\ locks[key_lock[c]] # 0
           /\ CACHE_WAITS' = [CACHE_WAITS EXCEPT ![k] = @ + 1]
           /\ UNCHANGED <<locks, backing_calls, calls>>
    /\ (pc[c] = "wait" /\ pc'[c] # "wait") =>
           /\ locks[key_lock[c]] = 0
           /\ pc'[c] = "recheck"
           /\ UNCHANGED <<backing_calls, calls, cache>>
    /\ (pc[c] = "recheck" /\ pc'[c] = "done") =>
           /\ cache[k] # Absent
           /\ result'[c] = Decoded(cache[k].val)
           /\ calls'[c] = 0
           /\ UNCHANGED <<backing_calls, cache>>

C7_FollowerServedFromCache == [][\A c \in Threads : C7_Step(c)]_vars

C7_Witness ==
    \E c \in Threads :
        pc[c] = "done" /\ source[c] = "follower_cache"
        /\ CACHE_WAITS[key[c]] > 0

\* C8: a follower whose re-read finds nothing enters f once, stays out of
\* the coordination path (it neither goes back to the lock attempt nor
\* records another miss or wait), returns the outcome of that one call and
\* leaves the cache as it is, also when the call succeeds.
C8_Step(c) ==
    /\ (pc[c] = "recheck" /\ pc'[c] # "recheck") =>
           /\ pc'[c] \in {"done", "fallback_fetch"}
           /\ pc'[c] = "fallback_fetch" => calls'[c] = 1
           /\ UNCHANGED <<cache, CACHE_MISSES, CACHE_WAITS>>
    /\ (pc[c] = "fallback_fetch" /\ pc'[c] # "fallback_fetch") =>
           /\ pc'[c] = "done"
           /\ calls'[c] = 1
           /\ result'[c].by = c
           /\ result'[c] \in {Own(c, o) : o \in FetchOutcomes}
           /\ UNCHANGED <<cache, counters, backing_calls>>

C8_DegradedFallback == [][\A c \in Threads : C8_Step(c)]_vars

C8_Witness ==
    \E c \in Threads :
        /\ pc[c] = "done" /\ source[c] = "fallback"
        /\ IsSuccess(result[c]) /\ json_dumps(result[c].body) # TypeError
        /\ cache[key[c]] = Absent

\* C9: when the leader's call of f fails while every other thread of the
\* burst waits for the key, each follower enters f at most once, the key
\* sees at most one call per thread, every thread returns the outcome of
\* its own call, and the key has no cache entry.
Followers(k) == {c \in Requested(k) : source[c] \in {"fallback", "follower_cache"}}

C9_FallbackProperty ==
    \A k \in Keys :
        leader_failed[k] =>
            /\ cache[k] = Absent
            /\ backing_calls[k] <= 1 + Cardinality(Followers(k))
            /\ \A c \in Requested(k) :
                   /\ calls[c] <= 1
                   /\ pc[c] = "done" => result[c].by = c

C9_Witness ==
    \E c \in Threads :
        /\ pc[c] = "done" /\ source[c] = "leader" /\ Failed(result[c])
        /\ \A d \in Threads \ {c} :
               /\ key[d] = key[c] /\ pc[d] = "done" /\ source[d] = "fallback"
        /\ \E d \in Threads \ {c} : IsSuccess(result[d])
        /\ backing_calls[key[c]] = BurstSize

\* C10 as claimed: with every cache call answered, a follower takes the
\* fallback only after a leader of the key left without populating the entry.
C10_FallbackOnlyAfterLeaderFailure ==
    \A c \in Threads :
        source[c] = "fallback" => leader_failed[key[c]]

\* C10 as amended: with every cache call answered, a follower takes the
\* fallback only when its re-read finds no entry, and then a leader of the
\* key left without populating the entry or the entry expired or was
\* invalidated.
C10_FallbackOnlyWhenAbsent ==
    /\ [][\A c \in Threads :
            (pc[c] = "recheck" /\ pc'[c] = "fallback_fetch")
            => cache[key[c]] = Absent]_vars
    /\ [](\A c \in Threads :
            source[c] = "fallback"
            => leader_failed[key[c]] \/ removed[key[c]])

C10_Witness ==
    \E c \in Threads :
        /\ source[c] = "fallback"
        /\ removed[key[c]] /\ ~leader_failed[key[c]]

Leading(c) == pc[c] \in {"leader_fetch", "leader_store", "leader_release"}

\* C11: the lock attempt never blocks; it is granted exactly when the key
\* lock is free, the granted caller then holds the lock, a denied caller
\* leaves the lock alone and goes to the follower path; so of the callers
\* attempting one key's lock at most one is a leader at any moment.
C11_Step(c) ==
    (pc[c] = "try_acquire" /\ pc'[c] # "try_acquire") =>
        /\ pc'[c] \in {"leader_fetch", "wait"}
        /\ (pc'[c] = "leader_fetch") <=> (locks[key_lock[c]] = 0)
        /\ pc'[c] = "leader_fetch" => locks' = [locks EXCEPT ![key_lock[c]] = c]
        /\ pc'[c] = "wait" => locks' = locks

C11_AtomicNonBlockingAttempt ==
    /\ [][\A c \in Threads : C11_Step(c)]_vars
    /\ [](\A c \in Threads : pc[c] = "try_acquire" => ENABLED TryAcquire(c))
    /\ [](\A k \in Keys :
            Cardinality({c \in Threads : key[c] = k /\ Leading(c)}) <= 1)

C11_Witness ==
    \E c, d \in Threads :
        /\ c # d /\ key[c] = key[d]
        /\ pc[c] = "wait" /\ Leading(d)
        /\ CACHE_WAITS[key[c]] = 1 /\ backing_calls[key[c]] = 1

Rechecking(c) == pc[c] \in {"recheck", "fallback_fetch"}
LeaderActive(k) == \E d \in Threads : key[d] = k /\ Leading(d)

\* C12 as claimed: once no leader is at work on a key, every follower
\* waiting for the key can go on to its re-check.
C12_AllFollowersReleased ==
    \A c \in Threads :
        (pc[c] = "wait" /\ ~LeaderActive(key[c])) => ENABLED Wait(c)

\* C12 as amended: a waiting follower can go on exactly when the key lock is
\* free; the lock it waits for is held by a leader of the key or by one
\* follower of the key doing its re-check or fallback fetch, so the
\* followers of a key go on one at a time.
C12_FollowersReleasedInTurn ==
    /\ \A c \in Threads :
          pc[c] = "wait" =>
             /\ (ENABLED Wait(c)) <=> (locks[key_lock[c]] = 0)
             /\ locks[key_lock[c]] # 0 =>
                   LET h == locks[key_lock[c]] IN
                   key[h] = key[c] /\ (Leading(h) \/ Rechecking(h))
    /\ \A k \in Keys :
          Cardinality({c \in Threads : key[c] = k /\ Rechecking(c)}) <= 1

C12_Witness ==
    \E c, d \in Threads :
        /\ c # d /\ key[c] = key[d]
        /\ pc[c] = "wait" /\ pc[d] = "fallback_fetch"
        /\ ~LeaderActive(key[c]) /\ leader_failed[key[c]]

LockIds == 1..Len(locks)

\* C13 as claimed: the key lock is held only by a leader.
C13_OnlyLeaderHolds ==
    \A l \in LockIds : locks[l] # 0 => Leading(locks[l])

\* C13 as amended: a key lock only moves free -> held -> free; its holder is
\* a leader of the key or a follower of the key doing its re-check or
\* fallback fetch; a caller is denied leadership by either kind of holder.
C13_Step(c) ==
    (pc[c] = "try_acquire" /\ pc'[c] = "wait") =>
        LET h == locks[key_lock[c]] IN
        h # 0 /\ h # c /\ key[h] = key[c] /\ (Leading(h) \/ Rechecking(h))

C13_LeaderOrFollowerHolds ==
    /\ [][/\ \A l \in LockIds :
                locks'[l] # locks[l] => (locks[l] = 0 \/ locks'[l] = 0)
          /\ \A c \in Threads : C13_Step(c)]_vars
    /\ [](\A l \in LockIds :
            locks[l] # 0 =>
               LET h == locks[l] IN
               key_lock[h] = l /\ (Leading(h) \/ Rechecking(h)))

C13_Witness ==
    \E c, d \in Threads :
        /\ c # d /\ key[c] = key[d]
        /\ pc[c] = "try_acquire" /\ pc[d] = "recheck"
        /\ locks[key_lock[c]] = d

AllDone(k) == Requested(k) # {} /\ \A c \in Requested(k) : pc[c] = "done"
Missed(k) == {c \in Requested(k) : pc[c] # "read" /\ source[c] # "cache"}
Denied(k) ==
    {c \in Requested(k) : \/ pc[c] = "wait"
                          \/ Rechecking(c)
                          \/ source[c] \in {"follower_cache", "fallback"}}

\* C14 as claimed: in the healthy environment, when all C callers of a cold
\* key missed on their first read and have returned, the key counts 1 miss
\* and C - 1 waits.
C14_OneMissRestWaits ==
    \A k \in Keys :
        (AllDone(k) /\ Missed(k) = Requested(k)) =>
            /\ CACHE_MISSES[k] = 1
            /\ CACHE_WAITS[k] = Cardinality(Requested(k)) - 1

\* C14 as amended: in the healthy environment the key counts one miss per
\* caller whose first read missed and one wait per caller denied the lock;
\* when all C callers of a cold key missed and have returned that is C
\* misses and C minus the number of calls of f waits, at most C - 1.
C14_MissPerCallerWaitPerDenied ==
    \A k \in Keys :
        /\ CACHE_MISSES[k] = Cardinality(Missed(k))
        /\ CACHE_WAITS[k] = Cardinality(Denied(k))
        /\ (AllDone(k) /\ Missed(k) = Requested(k)) =>
              /\ CACHE_MISSES[k] = Cardinality(Requested(k))
              /\ backing_calls[k] >= 1
              /\ CACHE_WAITS[k] = Cardinality(Requested(k)) - backing_calls[k]

C14_Witness ==
    \E k \in Keys :
        /\ AllDone(k) /\ Requested(k) = Threads
        /\ CACHE_MISSES[k] = BurstSize /\ CACHE_WAITS[k] = BurstSize - 1
        /\ backing_calls[k] = 1

\* C15: with the store reachable and nobody invalidating, a write gives the
\* entry the full ttl; the entry stays as written until its last tick and is
\* absent from then on; a first read that finds it returns it, a first read
\* that finds nothing takes the miss path; and the next store after an
\* expiry writes the entry again with the full ttl.
C15_Step(k) ==
    /\ (cache'[k] # cache[k] /\ cache'[k] # Absent) =>
          \/ cache'[k].left = CACHE_TTL
          \/ /\ cache[k] # Absent /\ cache[k].left > 1
             /\ cache'[k] = [cache[k] EXCEPT !.left = @ - 1]
    /\ (cache'[k] # cache[k] /\ cache'[k] = Absent) => cache[k].left = 1
    /\ \A c \in Threads :
          (key[c] = k /\ pc[c] = "read" /\ pc'[c] # "read") =>
             IF cache[k] # Absent
             THEN pc'[c] = "done" /\ result'[c] = Decoded(cache[k].val)
             ELSE pc'[c] = "gkl_enter"
    /\ \A c \in Threads :
          (key[c] = k /\ pc[c] = "leader_store" /\ pc'[c] # "leader_store") =>
             cache'[k] = [val |-> json_dumps(result[c].body), left |-> CACHE_TTL]

C15_TtlProperty ==
    /\ [][\A k \in Keys : C15_Step(k)]_vars
    /\ [](\A k \in Keys :
            cache[k] # Absent => cache[k].left \in 1..CACHE_TTL)

C15_Witness ==
    \E c, d \in Threads :
        /\ c # d /\ key[c] = key[d]
        /\ pc[c] = "done" /\ source[c] = "cache"
        /\ pc[d] = "leader_release" /\ removed[key[d]]
        /\ cache[key[d]] = [val |-> json_dumps(result[d].body), left |-> CACHE_TTL]

ServedByFirstRead(k) ==
    {c \in Requested(k) : pc[c] = "done" /\ source[c] = "cache"}

\* C16: with the store reachable and f returning the same payload every
\* time, a call whose first read finds the entry returns the decoded entry
\* and leaves the entry and the number of calls of f as they are; so all
\* such calls for a key return one value, the JSON round trip of the payload
\* a leader of the key wrote, however many they are.
C16_Idempotence ==
    /\ [][\A c \in Threads :
            (pc[c] = "read" /\ pc'[c] = "done") =>
                /\ result'[c] = Decoded(cache[key[c]].val)
                /\ UNCHANGED <<cache, backing_calls, calls>>]_vars
    /\ [](\A k \in Keys : \A c \in ServedByFirstRead(k) :
            /\ calls[c] = 0
            /\ \A d \in ServedByFirstRead(k) : result[d] = result[c]
            /\ \E l \in Requested(k) :
                  /\ source[l] = "leader"
                  /\ result[c].body = json_loads(json_dumps(result[l].body))
                  /\ result[c].status = 200)

C16_Witness ==
    \E k \in Keys :
        /\ Cardinality(ServedByFirstRead(k)) = BurstSize - 1
        /\ backing_calls[k] = 1
        /\ cache[k] # Absent
        /\ \E c \in ServedByFirstRead(k), l \in Requested(k) :
               source[l] = "leader" /\ result[c].body # result[l].body

ServedByCache(k) ==
    {c \in Requested(k) : source[c] \in {"cache", "follower_cache"}}

\* C17: whatever the cache does (client missing, a read, a decode or a
\* write raising), a read that yields no decodable value is a miss, a
\* leader's store leaves its result as f returned it and goes on to the
\* release, and every call that has returned holds no lock and returns
\* either the outcome of its own single call of f or a decoded cache entry;
\* without a client every call returns the outcome of its own call of f.
C17_Step(c) ==
    LET k == key[c] IN
    /\ (pc[c] = "read" /\ pc'[c] # "read"
        /\ (~redis_client \/ cache[k] = Absent \/ ~Decodable(cache[k].val))) =>
           pc'[c] = "gkl_enter" /\ result'[c] = result[c]
    /\ (pc[c] = "recheck" /\ pc'[c] # "recheck"
        /\ (~redis_client \/ cache[k] = Absent \/ ~Decodable(cache[k].val))) =>
           pc'[c] = "fallback_fetch" /\ calls'[c] = 1
    /\ (pc[c] = "leader_store" /\ pc'[c] # "leader_store") =>
           /\ pc'[c] = "leader_release"
           /\ result'[c] = result[c]
           /\ locks' = locks

C17_OutageNeverFails ==
    /\ [][\A c \in Threads : C17_Step(c)]_vars
    /\ [](\A c \in Threads :
            pc[c] = "done" =>
               /\ ~Holds(c)
               /\ result[c].body # "JSONDecodeError"
               /\ IF source[c] \in {"leader", "fallback"}
                  THEN /\ calls[c] = 1
                       /\ result[c] \in {Own(c, o) : o \in FetchOutcomes}
                  ELSE /\ redis_client /\ calls[c] = 0
                       /\ result[c].by = 0 /\ IsSuccess(result[c]))

C17_Witness ==
    \E c, d \in Threads :
        /\ c # d /\ key[c] = key[d]
        /\ cache[key[c]].val = "garbage"
        /\ CACHE_HITS[key[c]] > 0 /\ ServedByCache(key[c]) = {}
        /\ pc[c] = "done" /\ source[c] = "leader" /\ IsSuccess(result[c])
        /\ json_dumps(result[c].body) = TypeError
        /\ pc[d] = "done" /\ source[d] = "fallback" /\ IsSuccess(result[d])

GotLock(c) == key_lock[c] # 0
Slotted == {k \in Keys : request_locks[k] # 0}

\* C18: in every interleaving of get_key_lock calls, all callers of one key
\* got the same lock, which is the one the slot table holds for the key;
\* different keys have different locks, there are as many locks as keys
\* with a slot, and at most one caller is inside get_key_lock.
C18_AtomicGetOrCreate ==
    /\ \A c \in Threads :
          GotLock(c) => key_lock[c] = request_locks[key[c]]
    /\ \A c, d \in Threads :
          (GotLock(c) /\ GotLock(d)) => ((key_lock[c] = key_lock[d]) <=> (key[c] = key[d]))
    /\ Len(locks) = Cardinality(Slotted)
    /\ \A k \in Slotted : request_locks[k] \in LockIds
    /\ Cardinality({c \in Threads : pc[c] \in {"gkl_create", "gkl_return"}}) <= 1

C18_Witness ==
    \E c, d \in Threads :
        /\ c # d /\ key[c] = key[d]
        /\ pc[c] = "try_acquire" /\ pc[d] = "try_acquire"
        /\ key_lock[c] = key_lock[d] /\ GotLock(c)

\* C19: a slot is created only by a caller that missed and is inside
\* get_key_lock for a key that has no slot; a caller served by its first
\* read has no lock; a slot once created is never removed or replaced, so
\* the set of keys with a slot only grows.
C19_Step(k) ==
    /\ request_locks[k] # 0 => request_locks'[k] = request_locks[k]
    /\ request_locks'[k] # request_locks[k] =>
          \E c \in Threads :
              /\ pc[c] = "gkl_create" /\ key[c] = k
              /\ c \in Missed(k)
              /\ key_lock'[c] = request_locks'[k]

C19_SlotLifecycle ==
    /\ [][/\ \A k \in Keys : C19_Step(k)
          /\ \A l \in LockIds : l \in 1..Len(locks')]_vars
    /\ [](\A k \in Keys :
            /\ k \in Slotted => CACHE_MISSES[k] > 0
            /\ \A c \in ServedByFirstRead(k) : ~GotLock(c))

C19_Witness ==
    \E k \in Slotted :
        /\ ServedByFirstRead(k) # {}
        /\ cache[k] = Absent /\ removed[k]
        /\ inv_ret.status = 200 /\ inv_ret.invalidated_keys > 0

\* C20: with every cache call answered, an invalidation that replies 200
\* leaves every entry it listed absent, reports the number of entries its
\* delete removed, leaves slot table, locks and callers as they are, and its
\* steps are enabled whoever holds a key lock.
C20_Step ==
    /\ (inv_pc = "delete" /\ inv_pc' = "done" /\ inv_ret'.status = 200) =>
          /\ \A k \in inv_keys : cache'[k] = Absent
          /\ inv_ret'.invalidated_keys =
                Cardinality({k \in Keys : cache[k] # Absent /\ cache'[k] = Absent})
    /\ (inv_pc = "idle" /\ inv_pc' = "done" /\ inv_ret'.status = 200) =>
          /\ \A k \in Keys : cache[k] = Absent
          /\ inv_ret'.invalidated_keys = 0
    /\ inv_pc' # inv_pc =>
          UNCHANGED <<slots, pc, key, key_lock, result, source, counters, fetches>>

C20_InvalidationReportsRemoved ==
    /\ [][C20_Step]_vars
    /\ [](/\ inv_pc = "idle" => ENABLED InvalidateKeys(FALSE)
          /\ inv_pc = "delete" => ENABLED InvalidateDelete(FALSE))

InGetKeyLock(c) == pc[c] \in {"gkl_create", "gkl_return"}
AloneOnKey(c) == \A d \in Threads \ {c} : pc[d] = "idle" \/ key[d] # key[c]

\* C21: the slot-table lock is held only by a caller between the test and
\* the return of get_key_lock, never by one reading or writing the cache or
\* calling f; and a caller that is the only one on its key is granted the
\* key lock and never waits, whatever callers of other keys are doing.
C21_ManagerLockOnlyInGetKeyLock ==
    /\ lock_manager_lock # 0 => InGetKeyLock(lock_manager_lock)
    /\ \A c \in Threads :
          /\ InGetKeyLock(c) => lock_manager_lock = c
          /\ (AloneOnKey(c) /\ pc[c] = "try_acquire") => locks[key_lock[c]] = 0
          /\ AloneOnKey(c) => pc[c] \notin {"wait", "recheck", "fallback_fetch"}

C21_Witness ==
    \E c, d \in Threads :
        /\ key[c] # key[d]
        /\ pc[c] = "leader_fetch"
        /\ pc[d] = "done" /\ source[d] = "leader" /\ calls[c] = 1
        /\ CACHE_MISSES[key[d]] = 1 /\ CACHE_WAITS[key[d]] = 0

StalledLeader(c) ==
    /\ key_lock[c] # 0 /\ locks[key_lock[c]] # 0
    /\ pc[locks[key_lock[c]]] = "leader_fetch"

\* C22: for as long as the leader of a key stays inside f, a follower
\* waiting for the key cannot go on and stays waiting, and a caller that
\* missed and attempts the key's lock is denied and joins the waiting.
C22_Step(c) ==
    (StalledLeader(c) /\ pc'[locks[key_lock[c]]] = "leader_fetch") =>
        /\ pc[c] = "wait" => pc'[c] = "wait"
        /\ pc[c] = "try_acquire" => pc'[c] \in {"try_acquire", "wait"}

C22_NoTimeoutOnWait ==
    /\ [][\A c \in Threads : C22_Step(c)]_vars
    /\ [](\A c \in Threads :
            (pc[c] = "wait" /\ StalledLeader(c)) => ~ENABLED Wait(c))

C22_Witness ==
    \E c \in Threads :
        /\ pc[c] = "leader_fetch" /\ OthersWaiting(c)
        /\ CACHE_WAITS[key[c]] = BurstSize - 1
        /\ \A d \in Threads \ {c} : StalledLeader(d)

\* the invalidation has listed the key of leader c, whose write is still to
\* come, and has not deleted yet
RaceOpen(c) ==
    /\ pc[c] = "leader_store" /\ locks[key_lock[c]] = c
    /\ inv_pc = "delete" /\ key[c] \in inv_keys

\* C23: while a leader holds the key lock with its write still to come and
\* an invalidation has listed the key, the write and the delete can each be
\* the next step; the delete leaves the key absent and the write leaves the
\* leader's value, whichever came first; and a first read made afterwards
\* returns the entry if it is there and misses if it is not.
C23_Step(c) ==
    LET k == key[c] IN
    /\ (pc[c] = "leader_store" /\ pc'[c] # "leader_store") =>
          /\ cache'[k] = [val |-> json_dumps(result[c].body), left |-> CACHE_TTL]
          /\ UNCHANGED inval
    /\ (inv_pc = "delete" /\ inv_pc' = "done") =>
          /\ \A j \in inv_keys : cache'[j] = Absent
          /\ UNCHANGED <<pc, locks, result>>
    /\ (pc[c] = "read" /\ pc'[c] # "read") =>
          IF cache[k] # Absent
          THEN pc'[c] = "done" /\ result'[c] = Decoded(cache[k].val)
          ELSE pc'[c] = "gkl_enter"

C23_UncoordinatedInvalidation ==
    /\ [][\A c \in Threads : C23_Step(c)]_vars
    /\ [](\A c \in Threads :
            RaceOpen(c) => /\ ENABLED LeaderStore(c, FALSE)
                           /\ ENABLED InvalidateDelete(FALSE))

C23_Witness ==
    \E c, d \in Threads :
        /\ c # d /\ key[c] = key[d]
        /\ RaceOpen(c) /\ pc[d] = "idle"

RECURSIVE SumCalls(_)
SumCalls(S) ==
    IF S = {} THEN 0
    ELSE LET c == CHOOSE x \in S : TRUE IN calls[c] + SumCalls(S \ {c})

\* C24: a call enters f at most once: never when it is served from the
\* cache, once when it leads or falls back; the calls of f for a key are
\* those of its callers; what a leader or fallback follower returns is the
\* outcome of its own call, a failure included.
C24_NeverRetries ==
    /\ \A c \in Threads :
          /\ calls[c] = IF source[c] \in {"leader", "fallback"} THEN 1 ELSE 0
          /\ (pc[c] = "done" /\ calls[c] = 1) =>
                 result[c] \in {Own(c, o) : o \in FetchOutcomes}
          /\ (pc[c] = "done" /\ Failed(result[c])) => result[c].by = c
    /\ \A k \in Keys :
          backing_calls[k] = SumCalls({c \in Threads : key[c] = k})

C24_Witness ==
    \E c, d \in Threads :
        /\ c # d /\ key[c] = key[d]
        /\ pc[c] = "done" /\ source[c] = "leader" /\ result[c].kind = "raise"
        /\ pc[d] = "done" /\ source[d] = "fallback" /\ result[d].status = 500
        /\ backing_calls[key[c]] = 2

\* C25 as claimed: an invalidation never replies with a failure.
C25_InvalidationNeverFails ==
    inv_pc = "done" => inv_ret.status = 200

\* C25 as amended: an invalidation that meets no client or a cache call that
\* raises removes nothing and replies 500 with no count; without a client
\* it replies 500 before any cache call; every reply is a 200 or a 500.
C25_Step ==
    /\ (inv_pc # "done" /\ inv_pc' = "done" /\ inv_ret'.status # 200) =>
          /\ inv_ret' = [status |-> 500, invalidated_keys |-> 0]
          /\ UNCHANGED <<cache, slots, pc, result>>
    /\ (inv_pc = "idle" /\ inv_pc' # "idle" /\ ~redis_client) =>
          /\ inv_pc' = "done"
          /\ inv_ret' = [status |-> 500, invalidated_keys |-> 0]

C25_InvalidationReportsOutage ==
    /\ [][C25_Step]_vars
    /\ [](inv_pc = "done" => inv_ret.status \in {200, 500})
    /\ [](inv_pc = "delete" => redis_client)

C25_Witness ==
    /\ inv_pc = "done" /\ inv_ret.status = 500
    /\ \E k \in Keys : cache[k] # Absent

\* C26: for the decorated endpoints with the store reachable, a leader whose
\* query succeeded releases the key lock with the endpoint's key in the
\* cache, written with the full ttl.
C26_EndpointPopulatesCache ==
    \A c \in Threads :
        (pc[c] \in {"leader_release", "done"} /\ source[c] = "leader"
         /\ result[c] = Own(c, Bare)) =>
            /\ cache[key[c]] # Absent
            /\ cache[key[c]].left = CACHE_TTL

\* C27: under either decorator, whatever f yields, a key in the cache holds
\* the serialised payload of a result of f whose status is 200, never the
\* payload of a failed one.
SuccessTexts ==
    {dumps_with_decimals(o.body) :
        o \in {x \in StatusOutcomes : x.kind # "raise" /\ StatusOf(x) = 200}}
    \ {TypeError}

InWrapper(c) == pc[c] \notin {"idle", "done"}

C28_NoFollowerWaitsForever ==
    \A c \in Callers : (pc[c] = "wait") ~> (pc[c] = "done")

\* C28 (amended): a call that never returns is not deadlocked: it is blocked
\* on the slot-table lock or on its key lock, and that lock is free again
\* and again (other callers keep taking it first).
Overtaken(c) ==
    \/ pc[c] = "gkl_enter" /\ lock_manager_lock = 0
    \/ pc[c] = "wait" /\ locks[key_lock[c]] = 0

C28_ReturnsUnlessOvertaken ==
    \A c \in Callers : []<>(~InWrapper(c)) \/ []<>Overtaken(c)

\* a follower is blocked on the lock of a key whose earlier leader failed,
\* while another caller leads for the key
C28_Witness ==
    \E c, d \in Callers :
        /\ pc[c] = "wait" /\ pc[d] = "leader_fetch"
        /\ key_lock[d] = key_lock[c]
        /\ leader_failed[key[c]]

\* C29: no key lock leaks. A lock is free or held by one call that is in
\* progress between taking it and its return; a call that has not taken a
\* lock yet, or has returned or raised, holds none; so with every call
\* returned every key lock is free.
HeldBy(c) == {l \in LockIds : locks[l] = c}
InCriticalSection(c) == Leading(c) \/ Rechecking(c)

C29_NoLeakedLock ==
    /\ \A c \in Threads :
          HeldBy(c) = IF InCriticalSection(c) THEN {key_lock[c]} ELSE {}
    /\ \A l \in LockIds : locks[l] \in Threads \cup {0}
    /\ (\A c \in Threads : pc[c] \in {"idle", "ca_idle", "done"})
          => \A l \in LockIds : locks[l] = 0

\* both a leader and a fallback follower ended on an exception of f, every
\* call has returned
C29_Witness ==
    /\ \A c \in Callers : pc[c] = "done"
    /\ \E c, d \in Callers :
          /\ source[c] = "leader" /\ result[c] = Own(c, Raised)
          /\ source[d] = "fallback" /\ result[d] = Own(d, Raised)
          /\ key_lock[c] = key_lock[d]

\* C30: the hit, miss and wait counters never decrease; the waits of an
\* endpoint never exceed its misses; and a call that leaves the first read
\* has added to the hits or to the misses of its endpoint.
C30_Step(c) ==
    (pc[c] = "read" /\ pc'[c] # "read") =>
        CACHE_HITS'[key[c]] + CACHE_MISSES'[key[c]]
            > CACHE_HITS[key[c]] + CACHE_MISSES[key[c]]

C30_CountersAdditive ==
    /\ [][/\ \A k \in Keys : /\ CACHE_HITS'[k] >= CACHE_HITS[k]
                            /\ CACHE_MISSES'[k] >= CACHE_MISSES[k]
                            /\ CACHE_WAITS'[k] >= CACHE_WAITS[k]
          /\ \A c \in Threads : C30_Step(c)]_vars
    /\ [](\A k \in Keys : CACHE_WAITS[k] <= CACHE_MISSES[k])

\* two calls of one endpoint counted a miss each and one of them a wait;
\* the hit counted is for a text that was not JSON, no call was served from
\* the cache
C30_Witness ==
    \E k \in Keys :
        /\ CACHE_HITS[k] = 1 /\ CACHE_MISSES[k] = 2 /\ CACHE_WAITS[k] = 1
        /\ \A c \in Callers :
              key[c] = k /\ source[c] \notin {"cache", "follower_cache"}

\* C31: for every endpoint label the active-requests gauge equals the number
\* of requests between the decorator's inc() and its dec(); a request that
\* returned or raised is no longer counted, so with no request in flight
\* the gauge is 0.
TmInFlight(e) ==
    {c \in Threads : TmOf(c).endpoint = e
                     /\ TmOf(c).pc \in {"handler", "count", "dec"}}

C31_GaugeBalanced ==
    \A e \in TmEndpoints : LabelValue(ACTIVE_REQUESTS, e) = Cardinality(TmInFlight(e))

\* one request of an endpoint has raised and left, another is still inside
\* its handler
C31_Witness ==
    \E c, d \in Threads :
        /\ TmOf(c).pc = "raised" /\ TmOf(d).pc = "handler"
        /\ TmOf(c).endpoint = TmOf(d).endpoint
        /\ LabelValue(ACTIVE_REQUESTS, TmOf(c).endpoint) = 1

\* C32: every request that has passed the decorator's count is counted
\* once, under the label of its endpoint and of the status its handler
\* produced: the second element of a returned tuple, else the response's
\* status_code, else 200; 500 when the handler raised, and then the
\* exception leaves the decorator.
ProducedStatus(r) ==
    CASE r.kind = "raise" -> 500
      [] r.kind = "tuple" /\ r.len >= 2 -> r.status
      [] r.kind = "response" -> r.status
      [] OTHER -> 200

TmCounted(l) ==
    {c \in Threads : /\ TmOf(c).pc \in {"dec", "returned", "raised"}
                     /\ TmOf(c).endpoint = l[1]
                     /\ ProducedStatus(TmOf(c).response) = l[2]}

C32_CountedOncePerStatus ==
    /\ \A l \in TmLabels :
          LabelValue(REQUEST_COUNT, l) = Cardinality(TmCounted(l))
    /\ \A c \in Threads :
          /\ TmOf(c).pc = "raised" => TmOf(c).response.kind = "raise"
          /\ TmOf(c).pc = "returned" => TmOf(c).response.kind # "raise"

\* a request whose handler raised is counted under 500 and one that
\* returned a 3-tuple under the tuple's second element
C32_Witness ==
    \E c, d \in Threads :
        /\ TmOf(c).pc = "raised" /\ TmOf(d).pc = "returned"
        /\ TmOf(d).response = TmTuple3(404)
        /\ LabelValue(REQUEST_COUNT, <<TmOf(c).endpoint, 500>>) = 1
        /\ LabelValue(REQUEST_COUNT, <<TmOf(d).endpoint, 404>>) = 1

\* C33: a /async request that could not obtain the producer is answered
\* with status 503 and 'Kafka producer unavailable'; it has counted one
\* producer error and sent nothing.
AsyncUnserved(c) == AreqOf(c).pc = "done" /\ AreqOf(c).kafka_producer = 0

C33_Unavailable503 ==
    \A c \in Threads :
        AsyncUnserved(c) =>
            /\ AreqOf(c).status = 503
            /\ AreqOf(c).message = "Kafka producer unavailable"

\* C34: a call of get_kafka_producer that begins after a producer has been
\* constructed returns that first producer.
C34_LazySingleton ==
    \A c \in Threads :
        (AreqOf(c).late /\ AreqOf(c).pc \in {"produce", "finally", "done"})
        => \A i \in Constructed("producer") : AreqOf(c).kafka_producer <= i

\* C35: the committed offset never passes a message whose processing raised
\* (no unprocessed message is marked done), and the consumed counter never
\* exceeds the number of messages handed over.
C35_CommitOnlyProcessed ==
    /\ \A o \in topic.failed : topic.committed <= o
    /\ KAFKA_MESSAGES_CONSUMED <= topic.position

\* C36: once shutdown_consumer has run, the globals stay None: the consumer
\* thread constructs no consumer any more.
C36_ClosedAfterShutdown ==
    sd_pc = "done" => consumer = 0 /\ producer = 0

\* C37: /write, /bulk-insert and /read/master connect to the master and
\* /read/replica to the replica, whatever REPLICA_READ_PERCENT is; /read
\* goes to the replica when REPLICA_READ_PERCENT is 100 and to the master
\* when it is 0.
C37_Step ==
    (rt.pc = "idle" /\ rt'.pc = "connect" /\ rt'.endpoint = "/read") =>
        /\ REPLICA_READ_PERCENT = 100 => rt'.target = "replica"
        /\ REPLICA_READ_PERCENT = 0 => rt'.target = "master"

C37_Routing ==
    /\ [][C37_Step]_vars
    /\ [](rt.pc = "done" =>
            /\ rt.endpoint \in {"/write", "/bulk-insert", "/read/master"}
                  => rt.host = MASTER_HOST
            /\ rt.endpoint = "/read/replica" => rt.host = REPLICA_HOST
            /\ rt.endpoint = "/read" =>
                  rt.host = IF rt.target = "master" THEN MASTER_HOST
                            ELSE REPLICA_HOST)

\* /read was answered from the replica with the percentage at 100 after a
\* /write went to the master
C37_Witness ==
    /\ rt.pc = "done" /\ rt.endpoint = "/read" /\ rt.host = REPLICA_HOST
    /\ REPLICA_READ_PERCENT = 100
    /\ LabelValue(ROUTE_COUNT, <<"/write", "master">>) > 0

====
